---- MODULE Spec2Model ----
(***************************************************************************)
(* Shape-physics synchronisation engine of geometric-shapes-game:          *)
(* PixiService (registry, boundaries, tick loop, click resolver, stats),   *)
(* the Game facade, GameStateManager, ShapeFactory and the control panel   *)
(* wired by main().                                                        *)
(*                                                                         *)
(* Units: positions and sizes are pixels; body centres of the boundary     *)
(* set are stored doubled (x2, y2) so that halves stay integers; angles    *)
(* are multiples of PI/4; gravity is in tenths; areas are in hundredths of *)
(* a square pixel; time is in milliseconds.                                *)
(***************************************************************************)
EXTENDS Integers, Sequences, FiniteSets, TLC

VARIABLES
    pixi,            \* the PixiService singleton's fields
    gsm,             \* the GameStateManager singleton's fields
    shapesPerAction, \* Game.shapesPerAction, a JavaScript number
    win,             \* the browser window: innerWidth, innerHeight, host element width
    ui,              \* the control panel of the page and main()'s closure variables
    now,             \* performance.now()
    sink,            \* the stats inputs of the page: shape count and rounded area
    last,            \* observer: the handler that ran last and its arguments
    sinkLog          \* observer: when the sink was written last, and by whom

vars == <<pixi, gsm, shapesPerAction, win, ui, now, sink, last, sinkLog>>

----------------------------------------------------------------------------
(* Bounds of the model *)

MaxShapes == 2        \* the registry is not grown beyond this length
MaxShapeCount == 3    \* GameStateManager.shapeCount is not grown beyond this
MaxClockSteps == 6    \* the clock advances at most this many times
MaxListeners == 2     \* the window is not given more keydown listeners than this

\* Canvas pixels that are clicked, and where the Create/Auto controls spawn
Points == { <<20, 20>>, <<50, 20>> }

\* Where a physics step can leave a body, and with which angle (units of PI/4)
PhysicsPoses == { [x |-> 20, y |-> 20, angle |-> 0],
                  [x |-> 50, y |-> 20, angle |-> 2] }

\* Outcomes of Math.floor(Math.random() * 9) that are explored
RandomIndexes == { 0, 2 }

\* The browser windows explored: a desktop one and a phone one
Viewports == { [innerWidth |-> 1024, innerHeight |-> 900, hostWidth |-> 816],
               [innerWidth |-> 432,  innerHeight |-> 800, hostWidth |-> 416] }

\* How far the clock moves between two callbacks
ClockSteps == { 100 }

----------------------------------------------------------------------------
(* Numbers *)

Max(a, b) == IF a >= b THEN a ELSE b
Min(a, b) == IF a <= b THEN a ELSE b
Abs(a) == IF a >= 0 THEN a ELSE -a

\* Math.round of a non-negative amount given in hundredths
RoundHundredths(h) == (h + 50) \div 100

\* A JavaScript number argument: NaN, or a finite value given in tenths
NaN == [nan |-> TRUE, tenths |-> 0]
Number(t) == [nan |-> FALSE, tenths |-> t]

\* Math.floor(v) and Math.max(a, v) for an integer a: NaN goes through both
MathFloor(v) == IF v.nan THEN NaN ELSE Number((v.tenths \div 10) * 10)
MathMax(a, v) == IF v.nan THEN NaN ELSE Number(Max(10 * a, v.tenths))

----------------------------------------------------------------------------
(* Strings, as sequences of one-character strings *)

UpperLetters == << "A","B","C","D","E","F","G","H","I","J","K","L","M",
                   "N","O","P","Q","R","S","T","U","V","W","X","Y","Z" >>
LowerLetters == << "a","b","c","d","e","f","g","h","i","j","k","l","m",
                   "n","o","p","q","r","s","t","u","v","w","x","y","z" >>

LowerChar(c) ==
    IF \E i \in 1..26 : UpperLetters[i] = c
    THEN LowerLetters[CHOOSE i \in 1..26 : UpperLetters[i] = c]
    ELSE c

toLowerCase(s) == [i \in 1..Len(s) |-> LowerChar(s[i])]

IsSpace(c) == c \in { " ", "\t", "\n" }

RECURSIVE trimStart(_)
trimStart(s) ==
    IF s # <<>> /\ IsSpace(Head(s)) THEN trimStart(Tail(s)) ELSE s

RECURSIVE trimEnd(_)
trimEnd(s) ==
    IF s # <<>> /\ IsSpace(s[Len(s)])
    THEN trimEnd(SubSeq(s, 1, Len(s) - 1))
    ELSE s

\* trim() that leaves the trailing white space
trimLeft(s) == trimStart(s)

trim(s) == trimEnd(trimStart(s))

\* An optional string argument: omitted/null, or the characters given
Undefined == [given |-> FALSE, chars |-> <<>>]
Str(s) == [given |-> TRUE, chars |-> s]
\* The test made on the trimmed type instead of the argument
TruthyAfterTrim(arg) == arg.given /\ trim(arg.chars) # <<>>
Truthy(arg) == arg.given /\ arg.chars # <<>>

----------------------------------------------------------------------------
(* Shape geometry (shapes/Shape.ts) *)

\* ShapeFactory.shapeTypes, in order: the constructors' names
shapeTypes == << "Circle", "Square", "Rectangle", "Triangle", "Star",
                 "Pentagon", "Hexagon", "Ellipse", "Irregular" >>

\* Irregular.BASE_VERTICES, in hundredths
BASE_VERTICES == << [x |-> 0,   y |-> -100],
                    [x |-> 95,  y |-> -20],
                    [x |-> 45,  y |-> 100],
                    [x |-> -30, y |-> 90],
                    [x |-> -90, y |-> 10] >>

RECURSIVE ShoelaceSum(_, _)
ShoelaceSum(vs, i) ==
    IF i > Len(vs) THEN 0
    ELSE LET a == vs[i]
             b == vs[(i % Len(vs)) + 1]
         IN  (a.x * b.y - b.x * a.y) + ShoelaceSum(vs, i + 1)

\* Math.PI, Math.sqrt(3) and the pentagon's (1/4)sqrt(5(5+2 sqrt 5)), times 10^4
PiE4 == 31416
Sqrt3E4 == 17321
PentagonE4 == 17205

\* getArea() with a rectangle as high as it is wide
getAreaFullHeight(shape) ==
    LET s == shape.size
        t == shape.type
    IN  CASE t = "Circle"    -> (PiE4 * s * s) \div 400
          [] t = "Square"    -> s * s * 100
          [] t = "Rectangle" -> s * s * 100
          [] t = "Triangle"  -> (Sqrt3E4 * s * s) \div 400
          [] t = "Star"      -> (((PiE4 * s * s) \div 400) * 7) \div 10
          [] t = "Pentagon"  -> (PentagonE4 * s * s) \div 100
          [] t = "Hexagon"   -> (((3 * Sqrt3E4) \div 2) * s * s) \div 100
          [] t = "Ellipse"   -> (((PiE4 * s * s) \div 400) * 6) \div 10
          [] t = "Irregular" ->
                \* |shoelace| / 2 over the vertices scaled by 1.15 * (s / 2)
                (((((Abs(ShoelaceSum(BASE_VERTICES, 1)) \div 2) * 13225) \div 40000)
                    * s) * s) \div 100
          [] OTHER -> 0

\* getArea() of each variant, in hundredths of a square pixel
getArea(shape) ==
    LET s == shape.size
        t == shape.type
    IN  CASE t = "Circle"    -> (PiE4 * s * s) \div 400
          [] t = "Square"    -> s * s * 100
          [] t = "Rectangle" -> s * s * 50
          [] t = "Triangle"  -> (Sqrt3E4 * s * s) \div 400
          [] t = "Star"      -> (((PiE4 * s * s) \div 400) * 7) \div 10
          [] t = "Pentagon"  -> (PentagonE4 * s * s) \div 100
          [] t = "Hexagon"   -> (((3 * Sqrt3E4) \div 2) * s * s) \div 100
          [] t = "Ellipse"   -> (((PiE4 * s * s) \div 400) * 6) \div 10
          [] t = "Irregular" ->
                \* |shoelace| / 2 over the vertices scaled by 1.15 * (s / 2)
                (((((Abs(ShoelaceSum(BASE_VERTICES, 1)) \div 2) * 13225) \div 40000)
                    * s) * s) \div 100
          [] OTHER -> 0

----------------------------------------------------------------------------
(* ShapeFactory (factories/ShapeFactory.ts) *)

isPhone(w) == (IF w.innerWidth = 0 THEN 800 ELSE w.innerWidth) < 480

Chars_random    == << "r","a","n","d","o","m" >>
Chars_circle    == << "c","i","r","c","l","e" >>
Chars_square    == << "s","q","u","a","r","e" >>
Chars_rectangle == << "r","e","c","t","a","n","g","l","e" >>
Chars_triangle  == << "t","r","i","a","n","g","l","e" >>
Chars_star      == << "s","t","a","r" >>
Chars_pentagon  == << "p","e","n","t","a","g","o","n" >>
Chars_hexagon   == << "h","e","x","a","g","o","n" >>
Chars_ellipse   == << "e","l","l","i","p","s","e" >>
Chars_irregular == << "i","r","r","e","g","u","l","a","r" >>

\* What getPhysicsVertices() returns: null, or an array of points.  The
\* coordinates are in 1/20000 of a pixel.
Null == [isNull |-> TRUE, pts |-> <<>>]
Vertices(pts) == [isNull |-> FALSE, pts |-> pts]

\* The vertices the constructor of Irregular keeps: BASE_VERTICES times
\* (size / 2) * 1.15
scaled(size) ==
    [i \in DOMAIN BASE_VERTICES |->
        [x |-> BASE_VERTICES[i].x * size * 115,
         y |-> BASE_VERTICES[i].y * size * 115]]

\* getRandomShapeType(): rnd is Math.floor(Math.random() * shapeTypes.length)
getRandomShapeType(rnd) == shapeTypes[rnd + 1]

\* createShape(x, y, shapeType): the Shape constructed (colour left out:
\* nothing reads it but draw()); vertices is what its getPhysicsVertices()
\* returns
FactoryCreateShape(x, y, shapeType, w, rnd) ==
    LET size   == IF isPhone(w) THEN 33 ELSE 75
        given  == shapeType.given
        type   == IF given THEN toLowerCase(trim(shapeType.chars)) ELSE <<>>
        spawnY == IF Truthy(shapeType) THEN -size ELSE y
        ShapeClass ==
            IF ~given THEN getRandomShapeType(rnd)
            ELSE CASE type = Chars_random    -> getRandomShapeType(rnd)
                   [] type = Chars_circle    -> shapeTypes[1]
                   [] type = Chars_square    -> shapeTypes[2]
                   [] type = Chars_rectangle -> shapeTypes[3]
                   [] type = Chars_triangle  -> shapeTypes[4]
                   [] type = Chars_star      -> shapeTypes[5]
                   [] type = Chars_pentagon  -> shapeTypes[6]
                   [] type = Chars_hexagon   -> shapeTypes[7]
                   [] type = Chars_ellipse   -> shapeTypes[8]
                   [] type = Chars_irregular -> shapeTypes[9]
                   [] OTHER                  -> getRandomShapeType(rnd)
    IN  [type |-> ShapeClass, x |-> x, y |-> spawnY, size |-> size,
         vertices |-> IF ShapeClass = "Irregular" THEN Vertices(scaled(size))
                      ELSE Null]

----------------------------------------------------------------------------
(* Outlines and hulls of the polygons.  Angles are in degrees in the frame  *)
(* of the screen: 0 points right, 90 points down.                           *)

\* The variants whose body is built by Matter.Bodies.polygon, and its sides
PolygonTypes == { "Triangle", "Star", "Pentagon", "Hexagon" }
hullSides(type) ==
    CASE type = "Triangle" -> 3
      [] type = "Star"     -> 5
      [] type = "Pentagon" -> 5
      [] type = "Hexagon"  -> 6

\* Matter.Bodies.polygon(x, y, sides, radius): vertex i is at the angle
\* theta / 2 + i theta with theta = 2 PI / sides
polygonAngles(sides) ==
    { ((180 \div sides) + i * (360 \div sides)) % 360 : i \in 0..(sides - 1) }

\* draw(): the angles of the outer vertices of the outline in the node's frame
drawnAngles(type) ==
    CASE type = "Triangle" -> { (i * 120 - 60) % 360 : i \in 0..2 }
      [] type = "Star"     -> { (i * 36 - 36) % 360 : i \in { 0, 2, 4, 6, 8 } }
      [] type = "Pentagon" -> { (i * 72 - 36) % 360 : i \in 0..4 }
      [] type = "Hexagon"  -> { (i * 60 + 30) % 360 : i \in 0..5 }

\* A set of angles turned by d degrees; an angle given in units of PI/4
Turned(angles, d) == { (a + d) % 360 : a \in angles }
Degrees(units) == 45 * units

\* Where the vertices of entry e's hull and of its drawn outline point
HullAngles(e) ==
    Turned(polygonAngles(hullSides(e.shape.type)), Degrees(e.body.angle))
OutlineAngles(e) ==
    Turned(drawnAngles(e.shape.type), Degrees(e.graphics.rotation))

\* A regular polygon with these vertex angles has an edge whose outward
\* normal points straight down: the edge after vertex a has its normal at
\* a + 180 / sides
FlatEdgeAtBottom(angles, sides) ==
    \E a \in angles : (a + (180 \div sides)) % 360 = 90

----------------------------------------------------------------------------
(* Hit test: graphics.toLocal(point, stage) and graphics.containsPoint(local) *)

\* The click point in the node's own frame.  The shape container sits at the
\* stage origin, so only the node's position and rotation matter.  For an odd
\* multiple of PI/4 the coordinates returned are sqrt(2) times the real ones
\* and k = 2 says so (all tests below compare squares).
RECURSIVE QuarterTurnsBack(_, _, _)
QuarterTurnsBack(u, v, n) ==
    IF n = 0 THEN [u |-> u, v |-> v]
    ELSE QuarterTurnsBack(v, -u, n - 1)

toLocal(graphics, px, py) ==
    LET dx  == px - graphics.x
        dy  == py - graphics.y
        rot == graphics.rotation % 8
        odd == rot % 2 = 1
        u0  == IF odd THEN dx + dy ELSE dx
        v0  == IF odd THEN dy - dx ELSE dy
        q   == QuarterTurnsBack(u0, v0, rot \div 2)
    IN  [u |-> q.u, v |-> q.v, k |-> IF odd THEN 2 ELSE 1]

\* Whether the outline drawn by draw() contains the local point.  Circle,
\* square, rectangle and ellipse are exact; the polygons drawn on the circle
\* of radius size/2 (1.15 size/2 for the irregular one) are tested against
\* that circle.
containsPoint(shape, local) ==
    LET s  == shape.size
        t  == shape.type
        uu == local.u * local.u
        vv == local.v * local.v
        k  == local.k
    IN  CASE t = "Circle"    -> 4 * (uu + vv) <= k * s * s
          [] t = "Square"    -> 4 * uu <= k * s * s /\ 4 * vv <= k * s * s
          [] t = "Rectangle" -> 4 * uu <= k * s * s /\ 16 * vv <= k * s * s
          [] t = "Ellipse"   -> 36 * uu + 100 * vv <= 9 * k * s * s
          [] t = "Irregular" -> 400 * (uu + vv) <= 132 * k * s * s
          [] OTHER           -> 4 * (uu + vv) <= k * s * s

Hit(entry, px, py) ==
    containsPoint(entry.shape, toLocal(entry.graphics, px, py))

----------------------------------------------------------------------------
(* PixiService (services/PixiService.ts): fields *)

\* An unset slot of the boundary set
NoBody == [id |-> -1, x2 |-> 0, y2 |-> 0, w |-> 0, h |-> 0]

\* The fields as the field initialisers leave them (lines 10-35).  app,
\* container and world say whether app, shapeContainer and matterWorld /
\* matterEngine are non-null; children are the render nodes parented in
\* shapeContainer; bodies are the bodies in matterWorld; gravityY is
\* matterWorld.gravity.y in tenths.  clickListeners and keydownListeners are
\* the numbers of listeners that app.canvas has for "click" and the window for
\* "keydown" (lines 341 and 348).
PixiInit ==
    [ app                  |-> FALSE,
      container            |-> FALSE,
      children             |-> {},
      startText            |-> FALSE,
      world                |-> FALSE,
      bodies               |-> {},
      gravityY             |-> 10,
      shapeBodies          |-> <<>>,
      animationLoopStarted |-> FALSE,
      visibleWidth         |-> 800,
      visibleHeight        |-> 600,
      boundaryBottomOffset |-> 0,
      boundaries           |-> [left |-> NoBody, right |-> NoBody,
                                top |-> NoBody, bottom |-> NoBody],
      lastStatsUpdate      |-> 0,
      boundCanvasClick     |-> FALSE,
      boundKeydown         |-> FALSE,
      clickListeners       |-> 0,
      keydownListeners     |-> 0 ]

Sides == << "left", "right", "top", "bottom" >>

\* Identities of objects: the least numbers no live reference uses
RECURSIVE FreshIds(_, _)
FreshIds(used, n) ==
    IF n = 0 THEN <<>>
    ELSE LET i == CHOOSE j \in 0..Cardinality(used) :
                    j \notin used /\ \A m \in 0..(j - 1) : m \in used
         IN  <<i>> \o FreshIds(used \cup {i}, n - 1)

BodyIds(px) ==
    { b.id : b \in px.bodies }
        \cup { px.shapeBodies[i].body.id : i \in DOMAIN px.shapeBodies }
        \cup { px.boundaries[Sides[i]].id : i \in 1..4 }

NodeIds(px) ==
    px.children
        \cup { px.shapeBodies[i].graphics.id : i \in DOMAIN px.shapeBodies }

----------------------------------------------------------------------------
(* PixiService: boundaries and renderer size *)

\* createOrUpdateBoundaries() without the removal of the old bodies
createOrUpdateBoundariesKeepsOld(px, w) ==
    IF ~px.world THEN px
    ELSE
    LET phone == isPhone(w)
        bottomOff == IF phone THEN 16 ELSE 38
        topOffset == IF phone THEN 80 ELSE 140
        ids == FreshIds(BodyIds(px), 4)
        bar(i, x2, y2, bw, bh) == [id |-> ids[i], x2 |-> x2, y2 |-> y2,
                                   w |-> bw, h |-> bh]
    IN  [px EXCEPT
           !.boundaryBottomOffset = bottomOff,
           !.bodies = @ \cup { [id |-> ids[i], isStatic |-> TRUE] : i \in 1..4 },
           !.boundaries =
               [left   |-> bar(1, -50, px.visibleHeight, 50, px.visibleHeight),
                right  |-> bar(2, 2 * px.visibleWidth + 50, px.visibleHeight,
                               50, px.visibleHeight),
                top    |-> bar(3, px.visibleWidth, -2 * topOffset - 50,
                               px.visibleWidth, 50),
                bottom |-> bar(4, px.visibleWidth,
                               2 * (px.visibleHeight + bottomOff) + 50,
                               px.visibleWidth, 50)] ]

\* createOrUpdateBoundaries() with a phone top offset of 60
createOrUpdateBoundariesLowTop(px, w) ==
    IF ~px.world THEN px
    ELSE
    LET current   == { px.boundaries[Sides[i]] : i \in 1..4 } \ { NoBody }
        kept      == { b \in px.bodies : b.id \notin { c.id : c \in current } }
        thickness == 50
        phone     == isPhone(w)
        bottomOff == IF phone THEN 16 ELSE 38
        topOffset == IF phone THEN 60 ELSE 140
        ids       == FreshIds(BodyIds(px), 4)
        left   == [id |-> ids[1], x2 |-> -thickness, y2 |-> px.visibleHeight,
                   w |-> thickness, h |-> px.visibleHeight]
        right  == [id |-> ids[2], x2 |-> 2 * px.visibleWidth + thickness,
                   y2 |-> px.visibleHeight,
                   w |-> thickness, h |-> px.visibleHeight]
        top    == [id |-> ids[3], x2 |-> px.visibleWidth,
                   y2 |-> -2 * topOffset - thickness,
                   w |-> px.visibleWidth, h |-> thickness]
        bottom == [id |-> ids[4], x2 |-> px.visibleWidth,
                   y2 |-> 2 * (px.visibleHeight + bottomOff) + thickness,
                   w |-> px.visibleWidth, h |-> thickness]
    IN  [px EXCEPT
           !.boundaryBottomOffset = bottomOff,
           !.bodies = kept \cup
                        { [id |-> ids[i], isStatic |-> TRUE] : i \in 1..4 },
           !.boundaries = [left |-> left, right |-> right,
                           top |-> top, bottom |-> bottom] ]

\* createOrUpdateBoundaries()
createOrUpdateBoundaries(px, w) ==
    IF ~px.world THEN px
    ELSE
    LET current   == { px.boundaries[Sides[i]] : i \in 1..4 } \ { NoBody }
        kept      == { b \in px.bodies : b.id \notin { c.id : c \in current } }
        thickness == 50
        phone     == isPhone(w)
        bottomOff == IF phone THEN 16 ELSE 38
        topOffset == IF phone THEN 80 ELSE 140
        ids       == FreshIds(BodyIds(px), 4)
        left   == [id |-> ids[1], x2 |-> -thickness, y2 |-> px.visibleHeight,
                   w |-> thickness, h |-> px.visibleHeight]
        right  == [id |-> ids[2], x2 |-> 2 * px.visibleWidth + thickness,
                   y2 |-> px.visibleHeight,
                   w |-> thickness, h |-> px.visibleHeight]
        top    == [id |-> ids[3], x2 |-> px.visibleWidth,
                   y2 |-> -2 * topOffset - thickness,
                   w |-> px.visibleWidth, h |-> thickness]
        bottom == [id |-> ids[4], x2 |-> px.visibleWidth,
                   y2 |-> 2 * (px.visibleHeight + bottomOff) + thickness,
                   w |-> px.visibleWidth, h |-> thickness]
    IN  [px EXCEPT
           !.boundaryBottomOffset = bottomOff,
           !.bodies = kept \cup
                        { [id |-> ids[i], isStatic |-> TRUE] : i \in 1..4 },
           !.boundaries = [left |-> left, right |-> right,
                           top |-> top, bottom |-> bottom] ]

\* updateRendererSize(container)
updateRendererSize(px, w) ==
    IF ~px.app THEN px
    ELSE
    LET padding == 16
        rectW   == IF w.hostWidth = 0 THEN w.innerWidth ELSE w.hostWidth
        width   == Max(280, rectW - padding)
        height  == Max(220, Min((w.innerHeight * 7) \div 10, (width * 3) \div 4))
    IN  createOrUpdateBoundaries(
            [px EXCEPT !.visibleWidth = width, !.visibleHeight = height], w)

\* startAnimationLoop(): the ticker callback is added once
startAnimationLoop(px) ==
    IF px.animationLoopStarted \/ ~px.app \/ ~px.world THEN px
    ELSE [px EXCEPT !.animationLoopStarted = TRUE]

\* initialize(elementId) when the host element exists
initialize(px, w) ==
    LET a == [px EXCEPT !.app = TRUE, !.clickListeners = 0,
                        !.container = TRUE, !.children = {},
                        !.world = TRUE, !.bodies = {}, !.gravityY = 10]
        b == updateRendererSize(a, w)
        c == createOrUpdateBoundaries(b, w)
        d == [c EXCEPT !.startText = TRUE]
    IN  startAnimationLoop(d)

\* initialize(elementId) when document.getElementById finds nothing: the
\* Application is already assigned when the Error is thrown
initializeNoHost(px) == [px EXCEPT !.app = TRUE, !.clickListeners = 0]

\* addCanvasClickListener(callback): one more listener on the canvas of the
\* current Application
addCanvasClickListener(px) ==
    IF ~px.app THEN px
    ELSE [px EXCEPT !.boundCanvasClick = TRUE, !.clickListeners = @ + 1]

\* addKeyboardListener(callback): one more listener on the window
addKeyboardListener(px) ==
    [px EXCEPT !.boundKeydown = TRUE, !.keydownListeners = @ + 1]

\* hideStartScreen()
hideStartScreen(px) ==
    IF ~px.app \/ ~px.startText THEN px ELSE [px EXCEPT !.startText = FALSE]

----------------------------------------------------------------------------
(* PixiService: registry *)

\* The angle the new body gets (units of PI/4): only the hexagon is turned
SpawnAngle(type) == IF type = "Hexagon" THEN 1 ELSE 0

\* The hull built when the irregular variant supplies fewer than 3 vertices
defaultHull(size) ==
    << [x |-> -size * 10000, y |-> -size * 10000],
       [x |-> size * 10000,  y |-> -size * 10000],
       [x |-> 0,             y |-> size * 10000] >>

\* The vertices addShape passes to Matter.Bodies.fromVertices for the
\* irregular variant with every supplied array taken as it is
validVertsUnchecked(shape) ==
    IF shape.type # "Irregular" THEN <<>> ELSE shape.vertices.pts

\* The vertices addShape passes to Matter.Bodies.fromVertices for the
\* irregular variant (lines 268-276); <<>> for the variants whose body another
\* constructor of Matter.Bodies builds
validVerts(shape) ==
    IF shape.type # "Irregular" THEN <<>>
    ELSE LET verts == IF shape.vertices.isNull THEN <<>> ELSE shape.vertices.pts
         IN  IF Len(verts) >= 3 THEN verts ELSE defaultHull(shape.size)

\* addShape(shape) with shapeBodies.unshift in place of push
addShapeAtFront(px, shape) ==
    IF ~px.container \/ ~px.app \/ ~px.world THEN px
    ELSE
    LET graphics == [id |-> FreshIds(NodeIds(px), 1)[1],
                     x |-> 0, y |-> 0, rotation |-> 0]
        body     == [id |-> FreshIds(BodyIds(px), 1)[1],
                     x |-> shape.x, y |-> shape.y,
                     angle |-> SpawnAngle(shape.type),
                     hull |-> validVerts(shape)]
    IN  [px EXCEPT
           !.children = @ \cup {graphics.id},
           !.bodies = @ \cup { [id |-> body.id, isStatic |-> FALSE] },
           !.shapeBodies = << [shape |-> shape, graphics |-> graphics,
                               body |-> body] >> \o @ ]

\* addShape(shape)
addShape(px, shape) ==
    IF ~px.container \/ ~px.app \/ ~px.world THEN px
    ELSE
    LET graphics == [id |-> FreshIds(NodeIds(px), 1)[1],
                     x |-> 0, y |-> 0, rotation |-> 0]
        body     == [id |-> FreshIds(BodyIds(px), 1)[1],
                     x |-> shape.x, y |-> shape.y,
                     angle |-> SpawnAngle(shape.type),
                     hull |-> validVerts(shape)]
    IN  [px EXCEPT
           !.children = @ \cup {graphics.id},
           !.bodies = @ \cup { [id |-> body.id, isStatic |-> FALSE] },
           !.shapeBodies = Append(@, [shape |-> shape,
                                      graphics |-> graphics,
                                      body |-> body]) ]

\* clearShapes() that stops after the first entry
clearShapesFirstOnly(px) ==
    IF ~px.container \/ ~px.world \/ px.shapeBodies = <<>> THEN px
    ELSE [px EXCEPT
            !.bodies = { b \in @ : b.id # px.shapeBodies[1].body.id },
            !.children = @ \ { px.shapeBodies[1].graphics.id },
            !.shapeBodies = Tail(@) ]

\* clearShapes()
clearShapes(px) ==
    IF ~px.container \/ ~px.world THEN px
    ELSE [px EXCEPT
            !.bodies = { b \in @ : b.id \notin
                           { px.shapeBodies[i].body.id : i \in DOMAIN px.shapeBodies } },
            !.shapeBodies = <<>>,
            !.children = {} ]

\* The total of getArea() over the registry, in hundredths
RECURSIVE totalArea(_)
totalArea(entries) ==
    IF entries = <<>> THEN 0
    ELSE getArea(Head(entries).shape) + totalArea(Tail(entries))

\* updateStatsDisplay(): what is written to the two inputs
updateStatsDisplay(px) ==
    [count |-> Len(px.shapeBodies),
     area  |-> RoundHundredths(totalArea(px.shapeBodies))]

\* shapeBodies.splice(i, 1)
splice(entries, i) ==
    SubSeq(entries, 1, i - 1) \o SubSeq(entries, i + 1, Len(entries))

\* The index a forward loop would stop at
hitIndexOldest(px, x, y) ==
    LET hits == { i \in DOMAIN px.shapeBodies : Hit(px.shapeBodies[i], x, y) }
    IN  IF hits = {} THEN 0
        ELSE CHOOSE i \in hits : \A j \in hits : i <= j

\* The index the click handler's reverse loop stops at, 0 when it runs out
hitIndex(px, x, y) ==
    LET hits == { i \in DOMAIN px.shapeBodies : Hit(px.shapeBodies[i], x, y) }
    IN  IF hits = {} THEN 0
        ELSE CHOOSE i \in hits : \A j \in hits : j <= i

\* The deleting branch without Matter.World.remove
removeEntryLeavesBody(px, i) ==
    [px EXCEPT !.children = @ \ {px.shapeBodies[i].graphics.id},
               !.shapeBodies = splice(@, i) ]

\* The deleting branch of the click handler (lines 323-334) on entry i
removeEntry(px, i) ==
    LET entry == px.shapeBodies[i]
    IN  [px EXCEPT
           !.children = @ \ {entry.graphics.id},
           !.bodies = IF px.world
                      THEN { b \in @ : b.id # entry.body.id }
                      ELSE @,
           !.shapeBodies = splice(@, i) ]

----------------------------------------------------------------------------
(* GameStateManager (managers/GameStateManager.ts) *)

GsmInit == [isRunning |-> FALSE, shapeCount |-> 0]

gsmStartGame(g) == [g EXCEPT !.isRunning = TRUE, !.shapeCount = 0]
incrementShapeCount(g) == [g EXCEPT !.shapeCount = @ + 1]
resetShapeCount(g) == [g EXCEPT !.shapeCount = 0]

----------------------------------------------------------------------------
(* Game facade (Game.ts), as functions of the pair [pixi, gsm] *)

\* startGame()
startGame(st) ==
    [pixi |-> hideStartScreen(st.pixi), gsm |-> gsmStartGame(st.gsm)]

\* createShape(x, y, shapeType) with a factory that returns null when the
\* type names no variant
createShapeNullIfUnknown(st, x, y, shapeType, w, rnd) ==
    LET type == IF shapeType.given THEN toLowerCase(trim(shapeType.chars))
                ELSE <<>>
        known == { Chars_random, Chars_circle, Chars_square, Chars_rectangle,
                   Chars_triangle, Chars_star, Chars_pentagon, Chars_hexagon,
                   Chars_ellipse, Chars_irregular }
    IN  IF type \notin known THEN st
        ELSE [pixi |-> addShape(st.pixi,
                                FactoryCreateShape(x, y, shapeType, w, rnd)),
              gsm  |-> incrementShapeCount(st.gsm)]

\* createShape(x, y, shapeType): the factory never returns null
createShape(st, x, y, shapeType, w, rnd) ==
    [pixi |-> addShape(st.pixi, FactoryCreateShape(x, y, shapeType, w, rnd)),
     gsm  |-> incrementShapeCount(st.gsm)]

\* How often the loop of spawnAt runs: i < count is false from the start when
\* count = Math.max(1, Math.floor(shapesPerAction)) is NaN
spawnCount(n) ==
    LET count == MathMax(1, MathFloor(n))
    IN  IF count.nan THEN 0 ELSE count.tenths \div 10

\* spawnAt(x, y, shapeType): one createShape per element of rnds
RECURSIVE spawnAt(_, _, _, _, _, _)
spawnAt(st, x, y, shapeType, w, rnds) ==
    IF rnds = <<>> THEN st
    ELSE spawnAt(createShape(st, x, y, shapeType, w, Head(rnds)),
                 x, y, shapeType, w, Tail(rnds))

\* clearCanvas() that also calls gameStateManager.stopGame()
clearCanvasStopsGame(st) ==
    [pixi |-> clearShapes(st.pixi),
     gsm  |-> [resetShapeCount(st.gsm) EXCEPT !.isRunning = FALSE]]

\* clearCanvas()
clearCanvas(st) ==
    [pixi |-> clearShapes(st.pixi), gsm |-> resetShapeCount(st.gsm)]

\* setupEventListeners()
setupEventListeners(px) == addKeyboardListener(addCanvasClickListener(px))

\* handleCanvasClick(x, y) passing "random" as the type, as Game3D does
handleCanvasClickTyped(st, x, y, w, rnds) ==
    spawnAt(IF ~st.gsm.isRunning THEN startGame(st) ELSE st,
            x, y, Str(Chars_random), w, rnds)

\* handleCanvasClick(x, y)
handleCanvasClick(st, x, y, w, rnds) ==
    spawnAt(IF ~st.gsm.isRunning THEN startGame(st) ELSE st,
            x, y, Undefined, w, rnds)

\* handleKeyPress(code)
handleKeyPress(st, code) ==
    LET isEnter == code \in { "Enter", "NumpadEnter" }
    IN  IF code = "Escape" /\ st.gsm.isRunning THEN clearCanvas(st)
        ELSE IF isEnter /\ ~st.gsm.isRunning THEN startGame(st)
        ELSE st

\* One run of the canvas click listener (lines 310-340) on
\* r = [pixi, gsm, sink, deleted, forwarded]: deleted and forwarded count the
\* runs that removed a shape and the runs that called the callback
clickListener(r, x, y, w, rnds) ==
    IF r.pixi.container /\ r.pixi.app /\ hitIndex(r.pixi, x, y) # 0
    THEN LET px == removeEntry(r.pixi, hitIndex(r.pixi, x, y))
         IN  [r EXCEPT !.pixi = px, !.sink = updateStatsDisplay(px),
                       !.deleted = @ + 1]
    ELSE LET st == handleCanvasClick([pixi |-> r.pixi, gsm |-> r.gsm],
                                     x, y, w, rnds)
         IN  [r EXCEPT !.pixi = st.pixi, !.gsm = st.gsm, !.forwarded = @ + 1]

\* A click event dispatched to the listeners of the canvas, in the order they
\* were added; rndss holds the random indexes drawn by each run
RECURSIVE dispatchClick(_, _, _, _, _)
dispatchClick(r, x, y, w, rndss) ==
    IF rndss = <<>> THEN r
    ELSE dispatchClick(clickListener(r, x, y, w, Head(rndss)),
                       x, y, w, Tail(rndss))

\* A keydown event dispatched to the n listeners of the window
RECURSIVE dispatchKeydown(_, _, _)
dispatchKeydown(st, code, n) ==
    IF n = 0 THEN st
    ELSE dispatchKeydown(handleKeyPress(st, code), code, n - 1)

----------------------------------------------------------------------------
(* The control panel (main.ts): dropdown, Create and Auto buttons, rate and *)
(* gravity steppers                                                         *)

\* The page before main() has wired it.  selection is selection.shape;
\* autoIntervalId is 0 for null; autoLockedShape is Undefined for null;
\* intervals are the ids of the intervals the window keeps calling;
\* enableOnStart says that the once-listener of "game-started" is registered;
\* the ...Disabled fields are the disabled properties of the dropdown button,
\* the Create button, the Auto button, the two rate steppers and the two
\* gravity steppers; optionsInert says that the option list takes no pointer
\* events.  Whether the list is open is not kept: an option can be clicked
\* whenever the list takes pointer events.
UiInit ==
    [ wired           |-> FALSE,
      selection       |-> Str(Chars_random),
      autoIntervalId  |-> 0,
      autoLockedShape |-> Undefined,
      intervals       |-> {},
      enableOnStart   |-> FALSE,
      selectDisabled  |-> FALSE,
      optionsInert    |-> FALSE,
      createDisabled  |-> FALSE,
      autoDisabled    |-> FALSE,
      rateDisabled    |-> FALSE,
      gravityDisabled |-> FALSE ]

\* setControlsEnabled(enabled)
setControlsEnabled(u, enabled) ==
    [u EXCEPT !.selectDisabled  = ~enabled,
              !.optionsInert    = ~enabled,
              !.createDisabled  = ~enabled,
              !.autoDisabled    = ~enabled,
              !.rateDisabled    = ~enabled,
              !.gravityDisabled = ~enabled]

\* updateAutoUI(running) that leaves the rate steppers as they are
updateAutoUIKeepsRate(u, running) ==
    [u EXCEPT !.selectDisabled = running,
              !.optionsInert   = running,
              !.createDisabled = running]

\* updateAutoUI(running)
updateAutoUI(u, running) ==
    [u EXCEPT !.selectDisabled = running,
              !.optionsInert   = running,
              !.createDisabled = running,
              !.rateDisabled   = running]

\* The wiring main() does after game.initialize() has resolved; running is
\* game.isRunning() at that moment
wire(u, running) ==
    LET w == [u EXCEPT !.wired = TRUE, !.selection = Str(Chars_random),
                       !.autoIntervalId = 0, !.autoLockedShape = Undefined]
    IN  IF running THEN setControlsEnabled(w, TRUE)
        ELSE [setControlsEnabled(w, FALSE) EXCEPT !.enableOnStart = TRUE]

\* window.dispatchEvent(new CustomEvent("game-started")): enableAllControls
\* runs if it is still registered, and once only
gameStarted(u) ==
    IF u.enableOnStart
    THEN [setControlsEnabled(u, TRUE) EXCEPT !.enableOnStart = FALSE]
    ELSE u

\* The page after a handler that took the session from g to g2: startGame is
\* the only place that sets isRunning and it dispatches "game-started"
notified(u, g, g2) ==
    IF ~g.isRunning /\ g2.isRunning THEN gameStarted(u) ELSE u

isAutoRunning(u) == u.autoIntervalId # 0

\* window.setInterval: the id of the new interval, unused and not 0
setInterval(u) ==
    CHOOSE i \in 1..(Cardinality(u.intervals) + 1) :
        i \notin u.intervals /\ \A m \in 1..(i - 1) : m \in u.intervals

\* stopAuto() that forgets the interval without clearing it
stopAutoKeepsInterval(u, running) ==
    LET s == [u EXCEPT !.autoIntervalId = 0, !.autoLockedShape = Undefined]
    IN  IF running THEN updateAutoUI(s, FALSE) ELSE s

\* stopAuto() that re-enables the panel whether the game runs or not
stopAutoAlwaysEnables(u, running) ==
    updateAutoUI([u EXCEPT !.intervals = @ \ { u.autoIntervalId },
                           !.autoIntervalId = 0,
                           !.autoLockedShape = Undefined], FALSE)

\* stopAuto(); running is game.isRunning()
stopAuto(u, running) ==
    LET s == [u EXCEPT !.intervals = @ \ { u.autoIntervalId },
                       !.autoIntervalId = 0,
                       !.autoLockedShape = Undefined]
    IN  IF running THEN updateAutoUI(s, FALSE) ELSE s

\* The type autoSpawnOnce() passes: autoLockedShape || selection.shape
autoType(u) ==
    IF Truthy(u.autoLockedShape) THEN u.autoLockedShape ELSE u.selection

\* Math.round(v * 10) / 10 for v given in hundredths, as tenths: Math.round
\* takes halves up
RoundToTenth(h) == (h + 5) \div 10

----------------------------------------------------------------------------
(* The state machine *)

\* No write of the sink yet.  time and prev are the times of the last write
\* and of the one before it; tickTime and prevTick the same for the writes
\* made by the ticker callback.
NoWrite == [time |-> -1, prev |-> -1, tickTime |-> -1, prevTick |-> -1]

\* The state after construction when performance.now() reads t
InitAt(t) ==
    /\ pixi = PixiInit
    /\ gsm = GsmInit
    /\ shapesPerAction = Number(10)
    /\ win \in Viewports
    /\ ui = UiInit
    /\ now = t
    /\ sink = [count |-> 0, area |-> 0]
    /\ last = [op |-> "construct", x |-> 0, y |-> 0, before |-> 0,
               wrote |-> FALSE, forwarded |-> FALSE, threw |-> FALSE,
               arg |-> Undefined, runs |-> 0, steps |-> 0, delta |-> 0]
    /\ sinkLog = NoWrite

Init == InitAt(0)

\* The engine has been initialised and the listeners are bound
Initialized == pixi.app /\ pixi.container /\ pixi.world /\ pixi.boundCanvasClick

\* The handler op has run with arguments x, y on a registry of length
\* `before`; it wrote the sink / called the click callback or not.  threw
\* says that it ended by throwing, arg is the shapeType it was given and runs
\* the number of times the listeners of the event ran.  steps is the number of
\* calls of Matter.Engine.update the handler made and delta the step length
\* it passed, in sixtieths of a millisecond.
Returned(op, x, y, wrote, forwarded) ==
    [op |-> op, x |-> x, y |-> y, before |-> Len(pixi.shapeBodies),
     wrote |-> wrote, forwarded |-> forwarded, threw |-> FALSE,
     arg |-> Undefined, runs |-> 1, steps |-> 0, delta |-> 0]

Done(op, x, y, wrote, forwarded) ==
    last' = Returned(op, x, y, wrote, forwarded)

Thrown(op) ==
    last' = [Returned(op, 0, 0, FALSE, FALSE) EXCEPT !.threw = TRUE]

\* A write of the sink at the current time
Logged(by) ==
    [time     |-> now,
     prev     |-> sinkLog.time,
     tickTime |-> IF by = "tick" THEN now ELSE sinkLog.tickTime,
     prevTick |-> IF by = "tick" THEN sinkLog.tickTime ELSE sinkLog.prevTick]

\* Room left under the bounds for n more shapes
Room(n) ==
    /\ Len(pixi.shapeBodies) + n <= MaxShapes
    /\ gsm.shapeCount + n <= MaxShapeCount

\* main(): game.initialize("pixi-container") with its setupEventListeners(),
\* then the wiring of the control panel
Initialize ==
    /\ ~pixi.app
    /\ pixi' = setupEventListeners(initialize(pixi, win))
    /\ ui' = wire(ui, gsm.isRunning)
    /\ Done("initialize", 0, 0, FALSE, FALSE)
    /\ UNCHANGED <<gsm, shapesPerAction, win, now, sink, sinkLog>>

\* main() on a page without the host element: initialize() throws
InitializeFails ==
    /\ ~pixi.app
    /\ pixi' = initializeNoHost(pixi)
    /\ Thrown("initializeFails")
    /\ UNCHANGED <<ui, gsm, shapesPerAction, win, now, sink, sinkLog>>

\* The click listener without the return that follows the deletion
ClickDeletesAndForwards(x, y) ==
    /\ pixi.boundCanvasClick
    /\ pixi.container /\ pixi.app
    /\ hitIndex(pixi, x, y) # 0
    /\ LET px == removeEntry(pixi, hitIndex(pixi, x, y))
       IN  /\ sink' = updateStatsDisplay(px)
           /\ \E rnds \in [1..spawnCount(shapesPerAction) -> RandomIndexes] :
                LET st == handleCanvasClick([pixi |-> px, gsm |-> gsm],
                                            x, y, win, rnds)
                IN  pixi' = st.pixi /\ gsm' = st.gsm
    /\ ui' = notified(ui, gsm, gsm')
    /\ sinkLog' = Logged("click")
    /\ Done("click", x, y, TRUE, TRUE)
    /\ UNCHANGED <<shapesPerAction, win, now>>

\* The deleting branch of the click listener without updateStatsDisplay()
ClickDeletesSilently(x, y) ==
    /\ pixi.boundCanvasClick
    /\ pixi.container /\ pixi.app
    /\ hitIndex(pixi, x, y) # 0
    /\ pixi' = removeEntry(pixi, hitIndex(pixi, x, y))
    /\ Done("click", x, y, FALSE, FALSE)
    /\ UNCHANGED <<ui, gsm, shapesPerAction, win, now, sink, sinkLog>>

\* The canvas click listener when a shape is under the point
ClickDeletes(x, y) ==
    /\ pixi.boundCanvasClick
    /\ pixi.container /\ pixi.app
    /\ hitIndex(pixi, x, y) # 0
    /\ LET px == removeEntry(pixi, hitIndex(pixi, x, y))
       IN  /\ pixi' = px
           /\ sink' = updateStatsDisplay(px)
    /\ sinkLog' = Logged("click")
    /\ Done("click", x, y, TRUE, FALSE)
    /\ UNCHANGED <<ui, gsm, shapesPerAction, win, now>>

\* The canvas click listener when no shape is under the point
ClickSpawns(x, y) ==
    /\ pixi.boundCanvasClick
    /\ ~(pixi.container /\ pixi.app) \/ hitIndex(pixi, x, y) = 0
    /\ Room(spawnCount(shapesPerAction))
    /\ \E rnds \in [1..spawnCount(shapesPerAction) -> RandomIndexes] :
         LET st == handleCanvasClick([pixi |-> pixi, gsm |-> gsm],
                                     x, y, win, rnds)
         IN  pixi' = st.pixi /\ gsm' = st.gsm
    /\ ui' = notified(ui, gsm, gsm')
    /\ Done("click", x, y, FALSE, TRUE)
    /\ UNCHANGED <<shapesPerAction, win, now, sink, sinkLog>>

\* The keydown listener
KeyPress(code) ==
    /\ pixi.boundKeydown
    /\ LET st == handleKeyPress([pixi |-> pixi, gsm |-> gsm], code)
       IN  pixi' = st.pixi /\ gsm' = st.gsm
    /\ ui' = notified(ui, gsm, gsm')
    /\ Done(code, 0, 0, FALSE, FALSE)
    /\ UNCHANGED <<shapesPerAction, win, now, sink, sinkLog>>

\* Game.spawnAt(x, y, shapeType), as the Create button calls it
SpawnAt(x, y, shapeType) ==
    /\ Initialized
    /\ Room(spawnCount(shapesPerAction))
    /\ \E rnds \in [1..spawnCount(shapesPerAction) -> RandomIndexes] :
         LET st == spawnAt([pixi |-> pixi, gsm |-> gsm],
                           x, y, shapeType, win, rnds)
         IN  pixi' = st.pixi /\ gsm' = st.gsm
    /\ last' = [Returned("spawnAt", x, y, FALSE, FALSE) EXCEPT !.arg = shapeType]
    /\ UNCHANGED <<ui, shapesPerAction, win, now, sink, sinkLog>>

\* The auto-spawn timer calling spawnAt instead of createShape
CreateShapeViaSpawnAt(x, y, shapeType, rnd) ==
    /\ Initialized
    /\ Room(spawnCount(shapesPerAction))
    /\ LET st == spawnAt([pixi |-> pixi, gsm |-> gsm], x, y, shapeType, win,
                         [i \in 1..spawnCount(shapesPerAction) |-> rnd])
       IN  pixi' = st.pixi /\ gsm' = st.gsm
    /\ last' = [Returned("createShape", x, y, FALSE, FALSE)
                    EXCEPT !.arg = shapeType]
    /\ UNCHANGED <<ui, shapesPerAction, win, now, sink, sinkLog>>

\* Game.createShape(x, y, shapeType) when Math.random() gives index rnd
CreateShapeWith(x, y, shapeType, rnd) ==
    /\ Initialized
    /\ Room(1)
    /\ LET st == createShape([pixi |-> pixi, gsm |-> gsm],
                             x, y, shapeType, win, rnd)
       IN  pixi' = st.pixi /\ gsm' = st.gsm
    /\ last' = [Returned("createShape", x, y, FALSE, FALSE)
                    EXCEPT !.arg = shapeType]
    /\ UNCHANGED <<ui, shapesPerAction, win, now, sink, sinkLog>>

\* Game.createShape(x, y, shapeType), as the auto-spawn timer calls it
CreateShape(x, y, shapeType) ==
    \E rnd \in RandomIndexes : CreateShapeWith(x, y, shapeType, rnd)

\* PixiService.addShape(shape) called with a shape that was not built by the
\* factory: an Irregular whose getPhysicsVertices() returns verts
AddShape(x, y, verts) ==
    /\ Initialized
    /\ Len(pixi.shapeBodies) < MaxShapes
    /\ pixi' = addShape(pixi, [type |-> "Irregular", x |-> x, y |-> y,
                               size |-> IF isPhone(win) THEN 33 ELSE 75,
                               vertices |-> verts])
    /\ Done("addShape", x, y, FALSE, FALSE)
    /\ UNCHANGED <<ui, gsm, shapesPerAction, win, now, sink, sinkLog>>

\* Game.clearCanvas(), as window.clearShapes calls it
ClearCanvas ==
    /\ Initialized
    /\ LET st == clearCanvas([pixi |-> pixi, gsm |-> gsm])
       IN  pixi' = st.pixi /\ gsm' = st.gsm
    /\ Done("clearCanvas", 0, 0, FALSE, FALSE)
    /\ UNCHANGED <<ui, shapesPerAction, win, now, sink, sinkLog>>

\* Game.setShapesPerAction(value)
SetShapesPerAction(value) ==
    /\ Initialized
    /\ shapesPerAction' = MathMax(1, MathFloor(value))
    /\ Done("setShapesPerAction", value.tenths, 0, FALSE, FALSE)
    /\ UNCHANGED <<ui, pixi, gsm, win, now, sink, sinkLog>>

\* Game.setGravity(value), value in tenths
SetGravity(value) ==
    /\ Initialized
    /\ pixi' = IF ~pixi.world THEN pixi ELSE [pixi EXCEPT !.gravityY = value]
    /\ Done("setGravity", value, 0, FALSE, FALSE)
    /\ UNCHANGED <<ui, gsm, shapesPerAction, win, now, sink, sinkLog>>

\* Game.getGravity(), in tenths
getGravity == IF pixi.world THEN pixi.gravityY ELSE 10

\* The step length passed to Matter.Engine.update, 1000 / 60 ms, in sixtieths
\* of a millisecond
FixedStep == 1000

\* The ticker callback has run: one call of Matter.Engine.update(engine,
\* 1000 / 60) and, when due, one write of the sink
Ticked(due) ==
    [Returned("tick", 0, 0, due, FALSE) EXCEPT !.steps = 1, !.delta = FixedStep]

\* The body of entry e after Matter.Engine.update moved it to pose
Stepped(e, pose) ==
    [e EXCEPT !.body.x = pose.x, !.body.y = pose.y, !.body.angle = pose.angle]

\* The render node of entry e after the copy from its body (lines 106-110)
Synced(e) ==
    [e EXCEPT !.graphics.x = e.body.x, !.graphics.y = e.body.y,
              !.graphics.rotation = e.body.angle]

\* The ticker callback without the assignment to lastStatsUpdate
TickForgetsWriteTime(poses) ==
    /\ pixi.animationLoopStarted
    /\ LET moved == [i \in DOMAIN pixi.shapeBodies |->
                        Synced(Stepped(pixi.shapeBodies[i], poses[i]))]
           due   == now - pixi.lastStatsUpdate > 200
           px    == [pixi EXCEPT !.shapeBodies = moved]
       IN  /\ pixi' = px
           /\ sink' = IF due THEN updateStatsDisplay(px) ELSE sink
           /\ sinkLog' = IF due THEN Logged("tick") ELSE sinkLog
           /\ last' = Ticked(due)
    /\ UNCHANGED <<ui, gsm, shapesPerAction, win, now>>

\* The ticker callback with the throttle test written as >= 200
TickAtLeast(poses) ==
    /\ pixi.animationLoopStarted
    /\ LET moved == [i \in DOMAIN pixi.shapeBodies |->
                        Synced(Stepped(pixi.shapeBodies[i], poses[i]))]
           due   == now - pixi.lastStatsUpdate >= 200
           px    == [pixi EXCEPT !.shapeBodies = moved,
                                 !.lastStatsUpdate = IF due THEN now ELSE @]
       IN  /\ pixi' = px
           /\ sink' = IF due THEN updateStatsDisplay(px) ELSE sink
           /\ sinkLog' = IF due THEN Logged("tick") ELSE sinkLog
           /\ last' = Ticked(due)
    /\ UNCHANGED <<ui, gsm, shapesPerAction, win, now>>

\* The ticker callback with the copy to the render nodes made before the
\* physics step
TickSyncsBeforeStep(poses) ==
    /\ pixi.animationLoopStarted
    /\ LET moved == [i \in DOMAIN pixi.shapeBodies |->
                        Stepped(Synced(pixi.shapeBodies[i]), poses[i])]
           due   == now - pixi.lastStatsUpdate > 200
           px    == [pixi EXCEPT !.shapeBodies = moved,
                                 !.lastStatsUpdate = IF due THEN now ELSE @]
       IN  /\ pixi' = px
           /\ sink' = IF due THEN updateStatsDisplay(px) ELSE sink
           /\ sinkLog' = IF due THEN Logged("tick") ELSE sinkLog
           /\ last' = Ticked(due)
    /\ UNCHANGED <<ui, gsm, shapesPerAction, win, now>>

\* The ticker callback stepping the engine once per 1000 / 60 ms that passed
\* since the last stats write, at least once
TickCatchesUp(poses) ==
    /\ pixi.animationLoopStarted
    /\ LET moved == [i \in DOMAIN pixi.shapeBodies |->
                        Synced(Stepped(pixi.shapeBodies[i], poses[i]))]
           due   == now - pixi.lastStatsUpdate > 200
           px    == [pixi EXCEPT !.shapeBodies = moved,
                                 !.lastStatsUpdate = IF due THEN now ELSE @]
       IN  /\ pixi' = px
           /\ sink' = IF due THEN updateStatsDisplay(px) ELSE sink
           /\ sinkLog' = IF due THEN Logged("tick") ELSE sinkLog
           /\ last' = [Ticked(due) EXCEPT
                         !.steps = Max(1, ((now - pixi.lastStatsUpdate) * 60)
                                             \div FixedStep)]
    /\ UNCHANGED <<ui, gsm, shapesPerAction, win, now>>

\* The ticker callback with the throttle test turned round (< 200)
TickThrottleInverted(poses) ==
    /\ pixi.animationLoopStarted
    /\ LET moved == [i \in DOMAIN pixi.shapeBodies |->
                        Synced(Stepped(pixi.shapeBodies[i], poses[i]))]
           due   == now - pixi.lastStatsUpdate < 200
           px    == [pixi EXCEPT !.shapeBodies = moved,
                                 !.lastStatsUpdate = IF due THEN now ELSE @]
       IN  /\ pixi' = px
           /\ sink' = IF due THEN updateStatsDisplay(px) ELSE sink
           /\ sinkLog' = IF due THEN Logged("tick") ELSE sinkLog
           /\ last' = Ticked(due)
    /\ UNCHANGED <<ui, gsm, shapesPerAction, win, now>>

\* The ticker callback (lines 101-118); poses is the outcome of the physics
\* step for each registry entry
Tick(poses) ==
    /\ pixi.animationLoopStarted
    /\ LET moved == [i \in DOMAIN pixi.shapeBodies |->
                        Synced(Stepped(pixi.shapeBodies[i], poses[i]))]
           due   == now - pixi.lastStatsUpdate > 200
           px    == [pixi EXCEPT !.shapeBodies = moved,
                                 !.lastStatsUpdate = IF due THEN now ELSE @]
       IN  /\ pixi' = px
           /\ sink' = IF due THEN updateStatsDisplay(px) ELSE sink
           /\ sinkLog' = IF due THEN Logged("tick") ELSE sinkLog
           /\ last' = Ticked(due)
    /\ UNCHANGED <<ui, gsm, shapesPerAction, win, now>>

\* Time passes between two callbacks
AdvanceTime(d) ==
    /\ now + d <= MaxClockSteps * d
    /\ now' = now + d
    /\ Done("advanceTime", 0, 0, FALSE, FALSE)
    /\ UNCHANGED <<ui, pixi, gsm, shapesPerAction, win, sink, sinkLog>>

\* The user resizes the browser window; PixiService registers no listener
WindowResize(vp) ==
    /\ vp # win
    /\ win' = vp
    /\ Done("resize", 0, 0, FALSE, FALSE)
    /\ UNCHANGED <<ui, pixi, gsm, shapesPerAction, now, sink, sinkLog>>

\* Game.initialize(elementId) called again on the initialised engine: a new
\* Application with its own canvas, a new container and a new world replace
\* the old ones, the registry is kept, and setupEventListeners() runs again
Reinitialize ==
    /\ Initialized
    /\ pixi.keydownListeners < MaxListeners
    /\ pixi' = setupEventListeners(initialize(pixi, win))
    /\ Done("initialize", 0, 0, FALSE, FALSE)
    /\ UNCHANGED <<ui, gsm, shapesPerAction, win, now, sink, sinkLog>>

\* addCanvasClickListener(cb) and addKeyboardListener(cb) called again on the
\* initialised engine
BindListeners ==
    /\ Initialized
    /\ pixi.keydownListeners < MaxListeners
    /\ pixi' = addKeyboardListener(addCanvasClickListener(pixi))
    /\ Done("bindListeners", 0, 0, FALSE, FALSE)
    /\ UNCHANGED <<ui, gsm, shapesPerAction, win, now, sink, sinkLog>>

\* The browser dispatches a click at (x, y) to every listener of the canvas
ClickEvent(x, y) ==
    /\ pixi.clickListeners > 0
    /\ Room(pixi.clickListeners * spawnCount(shapesPerAction))
    /\ \E rndss \in [1..pixi.clickListeners ->
                        [1..spawnCount(shapesPerAction) -> RandomIndexes]] :
         LET r == dispatchClick([pixi |-> pixi, gsm |-> gsm, sink |-> sink,
                                 deleted |-> 0, forwarded |-> 0],
                                x, y, win, rndss)
         IN  /\ pixi' = r.pixi /\ gsm' = r.gsm /\ sink' = r.sink
             /\ sinkLog' = IF r.deleted > 0 THEN Logged("click") ELSE sinkLog
             /\ last' = [Returned("click", x, y, r.deleted > 0, r.forwarded > 0)
                             EXCEPT !.runs = pixi.clickListeners]
    /\ ui' = notified(ui, gsm, gsm')
    /\ UNCHANGED <<shapesPerAction, win, now>>

\* The browser dispatches a keydown to every listener of the window
KeyEvent(code) ==
    /\ pixi.keydownListeners > 0
    /\ LET st == dispatchKeydown([pixi |-> pixi, gsm |-> gsm], code,
                                 pixi.keydownListeners)
       IN  pixi' = st.pixi /\ gsm' = st.gsm
    /\ last' = [Returned(code, 0, 0, FALSE, FALSE)
                    EXCEPT !.runs = pixi.keydownListeners]
    /\ ui' = notified(ui, gsm, gsm')
    /\ UNCHANGED <<shapesPerAction, win, now, sink, sinkLog>>

\* Game.destroy(): PixiService has no destroy method, so the call
\* this.pixiService.destroy() throws a TypeError and nothing is torn down
Destroy ==
    /\ Thrown("destroy")
    /\ UNCHANGED <<ui, pixi, gsm, shapesPerAction, win, now, sink, sinkLog>>

----------------------------------------------------------------------------
(* The handlers main() wires to the control panel.  The browser sends no    *)
(* click to a disabled button.                                              *)

\* v + t and Math.min(a, v) for a JavaScript number v, t in tenths and an
\* integer a
Plus(v, t) == IF v.nan THEN NaN ELSE Number(v.tenths + t)
MathMin(a, v) == IF v.nan THEN NaN ELSE Number(Min(10 * a, v.tenths))

\* A click on the Create button: triggerCreate()
CreateClick(x, y) ==
    /\ ui.wired /\ ~ui.createDisabled
    /\ Room(spawnCount(shapesPerAction))
    /\ \E rnds \in [1..spawnCount(shapesPerAction) -> RandomIndexes] :
         LET st == spawnAt([pixi |-> pixi, gsm |-> gsm],
                           x, y, ui.selection, win, rnds)
         IN  pixi' = st.pixi /\ gsm' = st.gsm
    /\ last' = [Returned("create", x, y, FALSE, FALSE)
                    EXCEPT !.arg = ui.selection]
    /\ UNCHANGED <<ui, shapesPerAction, win, now, sink, sinkLog>>

\* Enter pressed with the focus inside the dropdown: the keydown listener of
\* the document calls triggerCreate(), which returns when the Create button
\* is disabled, and then the keydown listener of the window runs
DropdownEnter(x, y) ==
    /\ ui.wired /\ pixi.boundKeydown
    /\ IF ui.createDisabled
       THEN LET st == handleKeyPress([pixi |-> pixi, gsm |-> gsm], "Enter")
            IN  pixi' = st.pixi /\ gsm' = st.gsm
       ELSE /\ Room(spawnCount(shapesPerAction))
            /\ \E rnds \in [1..spawnCount(shapesPerAction) -> RandomIndexes] :
                 LET st == handleKeyPress(
                               spawnAt([pixi |-> pixi, gsm |-> gsm],
                                       x, y, ui.selection, win, rnds),
                               "Enter")
                 IN  pixi' = st.pixi /\ gsm' = st.gsm
    /\ ui' = notified(ui, gsm, gsm')
    /\ last' = [Returned("dropdownEnter", x, y, FALSE, FALSE)
                    EXCEPT !.arg = ui.selection]
    /\ UNCHANGED <<shapesPerAction, win, now, sink, sinkLog>>

\* A click on the Auto button: stopAuto() when an interval is recorded,
\* startAuto() otherwise.  startAuto locks the selection, puts the rate back
\* to 1, disables the panel, spawns once at (x, y) and starts the interval.
AutoClick(x, y) ==
    /\ ui.wired /\ ~ui.autoDisabled
    /\ IF isAutoRunning(ui)
       THEN /\ ui' = stopAuto(ui, gsm.isRunning)
            /\ last' = Returned("stopAuto", 0, 0, FALSE, FALSE)
            /\ UNCHANGED <<pixi, gsm, shapesPerAction>>
       ELSE /\ Room(1)
            /\ LET locked == [ui EXCEPT !.autoLockedShape = ui.selection]
                   shown  == updateAutoUI(locked, TRUE)
               IN  /\ \E rnd \in RandomIndexes :
                        LET st == createShape([pixi |-> pixi, gsm |-> gsm],
                                              x, y, autoType(shown), win, rnd)
                        IN  pixi' = st.pixi /\ gsm' = st.gsm
                   /\ ui' = [shown EXCEPT
                               !.intervals = @ \cup { setInterval(shown) },
                               !.autoIntervalId = setInterval(shown)]
                   /\ last' = [Returned("startAuto", x, y, FALSE, FALSE)
                                   EXCEPT !.arg = autoType(shown)]
            /\ shapesPerAction' = MathMax(1, MathFloor(Number(10)))
    /\ UNCHANGED <<win, now, sink, sinkLog>>

\* An interval of the window calls autoSpawnOnce()
AutoTimer(x, y) ==
    /\ ui.intervals # {}
    /\ Room(1)
    /\ \E rnd \in RandomIndexes :
         LET st == createShape([pixi |-> pixi, gsm |-> gsm],
                               x, y, autoType(ui), win, rnd)
         IN  pixi' = st.pixi /\ gsm' = st.gsm
    /\ last' = [Returned("autoSpawn", x, y, FALSE, FALSE)
                    EXCEPT !.arg = autoType(ui)]
    /\ UNCHANGED <<ui, shapesPerAction, win, now, sink, sinkLog>>

\* The window loses the focus
WindowBlur ==
    /\ ui.wired
    /\ ui' = stopAuto(ui, gsm.isRunning)
    /\ Done("blur", 0, 0, FALSE, FALSE)
    /\ UNCHANGED <<pixi, gsm, shapesPerAction, win, now, sink, sinkLog>>

\* visibilitychange with document.hidden
PageHidden ==
    /\ ui.wired
    /\ ui' = stopAuto(ui, gsm.isRunning)
    /\ Done("hidden", 0, 0, FALSE, FALSE)
    /\ UNCHANGED <<pixi, gsm, shapesPerAction, win, now, sink, sinkLog>>

\* A click on the option of the dropdown list whose data-value is value
SelectOption(value) ==
    /\ ui.wired /\ ~ui.optionsInert
    /\ ui' = [ui EXCEPT !.selection = Str(value)]
    /\ last' = [Returned("select", 0, 0, FALSE, FALSE) EXCEPT !.arg = Str(value)]
    /\ UNCHANGED <<pixi, gsm, shapesPerAction, win, now, sink, sinkLog>>

\* What the rate steppers pass to setShapesPerAction
rateMinus(current) == MathMax(1, Plus(current, -10))
ratePlus(current) == MathMin(20, Plus(current, 10))

\* What the gravity steppers pass to setGravity, in tenths; the first is
\* gravity-minus without Math.max(0, ...)
gravityMinusUnclamped(current) == RoundToTenth(current * 10 - 20)
gravityMinus(current) == Max(0, RoundToTenth(current * 10 - 20))
gravityPlus(current) == Min(50, RoundToTenth(current * 10 + 20))

\* A click on the stepper of the rate: down or up
RateStep(up) ==
    /\ ui.wired /\ ~ui.rateDisabled
    /\ LET next == IF up THEN ratePlus(shapesPerAction)
                   ELSE rateMinus(shapesPerAction)
       IN  /\ shapesPerAction' = MathMax(1, MathFloor(next))
           /\ last' = [Returned(IF up THEN "ratePlus" ELSE "rateMinus",
                                shapesPerAction.tenths, 0, FALSE, FALSE)
                           EXCEPT !.arg = Undefined]
    /\ UNCHANGED <<pixi, gsm, ui, win, now, sink, sinkLog>>

\* A click on the stepper of the gravity: down or up
GravityStep(up) ==
    /\ ui.wired /\ ~ui.gravityDisabled
    /\ LET next == IF up THEN gravityPlus(getGravity)
                   ELSE gravityMinus(getGravity)
       IN  /\ pixi' = IF ~pixi.world THEN pixi
                      ELSE [pixi EXCEPT !.gravityY = next]
           /\ Done(IF up THEN "gravityPlus" ELSE "gravityMinus",
                   getGravity, 0, FALSE, FALSE)
    /\ UNCHANGED <<gsm, shapesPerAction, ui, win, now, sink, sinkLog>>

----------------------------------------------------------------------------
(* Spec: the registry under clicks, keys, the Create and Auto controls,     *)
(* clear-all and ticks, on the desktop window, with the clock left alone    *)

\* The key codes handleKeyPress acts on, and those with one more that it ignores
SessionKeys == { "Escape", "Enter" }
Keys == SessionKeys \cup { "KeyA" }

\* What the Create and Auto controls pass as shapeType
Selections == { Str(<< " ","R","e","c","t","a","n","g","l","e" >>) }

\* Where the Create and Auto controls spawn (computeTopSpawn)
TopSpawns == { <<20, 20>> }

Clicks == \E p \in Points : ClickDeletes(p[1], p[2]) \/ ClickSpawns(p[1], p[2])
KeyPresses == \E code \in SessionKeys : KeyPress(code)
Creates == \E p \in TopSpawns, t \in Selections : SpawnAt(p[1], p[2], t)
AutoSpawns == \E p \in TopSpawns, t \in Selections : CreateShape(p[1], p[2], t)
Ticks == \E poses \in [DOMAIN pixi.shapeBodies -> PhysicsPoses] : Tick(poses)

\* The desktop window of Viewports, and the state after construction in it
Desktop == CHOOSE vp \in Viewports : ~isPhone(vp)

InitDesktop == Init /\ win = Desktop

Next ==
    \/ Initialize
    \/ InitializeFails
    \/ Clicks
    \/ KeyPresses
    \/ Creates
    \/ AutoSpawns
    \/ ClearCanvas
    \/ Ticks

Spec == InitDesktop /\ [][Next]_vars

----------------------------------------------------------------------------
(* SpecStats: the stats sink under clicks, clear-all, ticks and the clock,  *)
(* on the desktop window                                                    *)

StatsClicks ==
    \E p \in { <<20, 20>> } : ClickDeletes(p[1], p[2]) \/ ClickSpawns(p[1], p[2])
Clock == \E d \in ClockSteps : AdvanceTime(d)

StatsTicks ==
    \E poses \in [DOMAIN pixi.shapeBodies -> { [x |-> 20, y |-> 20, angle |-> 0] }] :
        Tick(poses)

NextStats ==
    \/ Initialize
    \/ StatsClicks
    \/ ClearCanvas
    \/ StatsTicks
    \/ Clock

SpecStats == InitDesktop /\ [][NextStats]_vars

----------------------------------------------------------------------------
(* SpecViewport: the boundary set while the browser window is resized       *)

Resizes == \E vp \in Viewports : WindowResize(vp)

NextViewport ==
    \/ Initialize
    \/ Resizes
    \/ Clicks
    \/ Ticks

SpecViewport == Init /\ [][NextViewport]_vars

----------------------------------------------------------------------------
(* SpecControls: gravity and shapes-per-action set through the facade       *)

\* Values passed to setGravity, in tenths: -3, 2 and 99
GravityInputs == { -30, 20, 990 }

Gravities == \E v \in GravityInputs : SetGravity(v)
Rates == \E v \in { Number(0), Number(20) } : SetShapesPerAction(v)

NextControls ==
    \/ Initialize
    \/ Gravities
    \/ Rates
    \/ StatsClicks
    \/ Ticks

SpecControls == InitDesktop /\ [][NextControls]_vars

----------------------------------------------------------------------------
(* SpecFacade: the session and the registry under every operation of the    *)
(* Game facade, on the desktop window                                       *)

\* Values passed to setShapesPerAction: -1, 2.7 and NaN
RateInputs == { Number(-10), Number(27), NaN }

FacadeRates == \E v \in RateInputs : SetShapesPerAction(v)
FacadeKeyPresses == \E code \in Keys : KeyPress(code)
FacadeGravities == \E v \in { 20 } : SetGravity(v)

NextFacade ==
    \/ Initialize
    \/ StatsClicks
    \/ FacadeKeyPresses
    \/ Creates
    \/ AutoSpawns
    \/ ClearCanvas
    \/ FacadeGravities
    \/ FacadeRates
    \/ StatsTicks
    \/ Destroy

SpecFacade == InitDesktop /\ [][NextFacade]_vars

----------------------------------------------------------------------------
(* SpecRebind: clicks and key presses after the listeners have been bound   *)
(* more than once                                                           *)

ClickEvents == \E p \in { <<20, 20>> } : ClickEvent(p[1], p[2])
KeyEvents == \E code \in Keys : KeyEvent(code)

NextRebind ==
    \/ Initialize
    \/ Reinitialize
    \/ BindListeners
    \/ ClickEvents
    \/ KeyEvents
    \/ StatsTicks

SpecRebind == InitDesktop /\ [][NextRebind]_vars

----------------------------------------------------------------------------
(* SpecFactory: ShapeFactory.createShape, called through Game.createShape,  *)
(* on type arguments of every spelling and every outcome of Math.random()   *)

\* Every outcome of Math.floor(Math.random() * 9)
AllIndexes == 0..(Len(shapeTypes) - 1)

\* The names of the 9 variants as the dropdown spells them, in the order of
\* shapeTypes
TypeNames == << Chars_circle, Chars_square, Chars_rectangle, Chars_triangle,
                Chars_star, Chars_pentagon, Chars_hexagon, Chars_ellipse,
                Chars_irregular >>

UpperChar(c) ==
    IF \E i \in 1..26 : LowerLetters[i] = c
    THEN UpperLetters[CHOOSE i \in 1..26 : LowerLetters[i] = c]
    ELSE c
Upper(s) == [i \in 1..Len(s) |-> UpperChar(s[i])]
Capitalised(s) == << UpperChar(Head(s)) >> \o Tail(s)

\* Spellings of a name: as it is, capitalised after a blank, and in capitals
\* between a line feed and a tab and a blank
Spellings(name) ==
    { name, << " " >> \o Capitalised(name),
      << "\n" >> \o Upper(name) \o << "\t", " " >> }

\* The arguments that spell the name of variant k
TypeArgsOf == [k \in 1..9 |-> { Str(c) : c \in Spellings(TypeNames[k]) }]

KnownTypeArgs == UNION { TypeArgsOf[k] : k \in 1..9 }

\* Arguments that name no variant: omitted or null, empty, blank, misspelt,
\* unknown
FallbackTypeArgs ==
    { Undefined, Str(<<>>), Str(<< " ", " " >>),
      Str(<< "c","i","r","c","l" >>), Str(<< "B","l","o","b" >>) }

TypeArgs ==
    KnownTypeArgs \cup FallbackTypeArgs \cup { Str(c) : c \in Spellings(Chars_random) }

\* Math.random() is drawn only when the argument names no variant
FactoryCreates ==
    \/ \E t \in KnownTypeArgs : CreateShapeWith(20, 20, t, 0)
    \/ \E t \in TypeArgs \ KnownTypeArgs, rnd \in AllIndexes :
            CreateShapeWith(20, 20, t, rnd)

NextFactory ==
    \/ Initialize
    \/ FactoryCreates
    \/ ClearCanvas

SpecFactory == InitDesktop /\ [][NextFactory]_vars

----------------------------------------------------------------------------
(* SpecSpawn: Game.createShape with and without a type, at two positions,   *)
(* in a window that the user resizes across the 480 px tier                 *)

\* shapeType arguments by truthiness: omitted or null, empty (falsy); blank,
\* "random", a variant's name (truthy)
SpawnTypeArgs ==
    { Undefined, Str(<<>>), Str(<< " ", " " >>), Str(Chars_random),
      Str(<< " " >> \o Capitalised(Chars_rectangle)) }

\* The positions passed to createShape
SpawnPoints == { <<20, 20>>, <<50, 300>> }

SpawnCreates ==
    \E p \in SpawnPoints, t \in SpawnTypeArgs :
        \E rnd \in RandomIndexes : CreateShapeWith(p[1], p[2], t, rnd)

NextSpawn ==
    \/ Initialize
    \/ Resizes
    \/ SpawnCreates
    \/ ClearCanvas

SpecSpawn == Init /\ [][NextSpawn]_vars

----------------------------------------------------------------------------
(* SpecLoop: the ticker callback on a registry that clicks fill and empty,  *)
(* with every outcome of the physics step and a running clock               *)

NextLoop ==
    \/ Initialize
    \/ StatsClicks
    \/ Ticks
    \/ Clock

SpecLoop == InitDesktop /\ [][NextLoop]_vars

----------------------------------------------------------------------------
(* SpecArea: shapes of every variant and of both sizes, and the stats the   *)
(* first tick computes from them with getArea()                             *)

\* Game.createShape without a type: Math.random() picks the variant
AreaCreates ==
    \E rnd \in AllIndexes : CreateShapeWith(20, 20, Undefined, rnd)

\* performance.now() when the page's script constructs the game, in ms: the
\* first tick is then due for a stats write
LoadTime == 300

NextArea ==
    \/ Initialize
    \/ AreaCreates
    \/ StatsTicks

SpecArea == InitAt(LoadTime) /\ [][NextArea]_vars

----------------------------------------------------------------------------
(* SpecOrder: clicks on a stack of MaxShapes + 1 rectangles that the ticks  *)
(* move under and away from the click points                                *)

\* The state n calls of createShape(20, 20) leave, Math.random() picking the
\* Rectangle each time
RECURSIVE Stacked(_, _)
Stacked(st, n) ==
    IF n = 0 THEN st
    ELSE createShape(Stacked(st, n - 1), 20, 20, Undefined, Desktop, 2)

\* The game in a desktop window after initialize, Enter and MaxShapes + 1
\* calls of createShape by the auto-spawn timer
InitStacked ==
    LET opened  == [pixi |-> setupEventListeners(initialize(PixiInit, Desktop)),
                    gsm  |-> GsmInit]
        stacked == Stacked(handleKeyPress(opened, "Enter"), MaxShapes + 1)
    IN  /\ pixi = stacked.pixi
        /\ gsm = stacked.gsm
        /\ shapesPerAction = Number(10)
        /\ win = Desktop
        /\ ui = gameStarted(wire(UiInit, FALSE))
        /\ now = 0
        /\ sink = [count |-> 0, area |-> 0]
        /\ last = [op |-> "createShape", x |-> 20, y |-> 20,
                   before |-> MaxShapes, wrote |-> FALSE, forwarded |-> FALSE,
                   threw |-> FALSE, arg |-> Undefined, runs |-> 1,
                   steps |-> 0, delta |-> 0]
        /\ sinkLog = NoWrite

NextOrder ==
    \/ Clicks
    \/ Ticks
    \/ ClearCanvas

SpecOrder == InitStacked /\ [][NextOrder]_vars

----------------------------------------------------------------------------
(* SpecLive: the ticker keeps calling back and the clock keeps running      *)
(* while clicks and clearCanvas change the registry                         *)

NextLive ==
    \/ Initialize
    \/ StatsClicks
    \/ ClearCanvas
    \/ StatsTicks
    \/ Clock

\* Pixi's ticker calls back on every animation frame once it is started, and
\* time passes whatever the program does
SpecLive ==
    /\ InitDesktop
    /\ [][NextLive]_vars
    /\ WF_vars(StatsTicks)
    /\ WF_vars(Clock)

----------------------------------------------------------------------------
(* SpecPanel: the page under events of the user interface only: canvas      *)
(* clicks, keys, the dropdown, the Create and Auto buttons, the auto-spawn  *)
(* interval, the rate steppers, blur and visibility changes                 *)

\* The rate steppers are not pressed beyond this rate in SpecPanel
MaxPanelRate == 2

\* The data-value of the options that are clicked
OptionValues == { Chars_circle, Chars_random }

CreateClicks == \E p \in TopSpawns : CreateClick(p[1], p[2])
DropdownEnters == \E p \in TopSpawns : DropdownEnter(p[1], p[2])
AutoClicks == \E p \in TopSpawns : AutoClick(p[1], p[2])
AutoTimers == \E p \in TopSpawns : AutoTimer(p[1], p[2])
SelectOptions == \E v \in OptionValues : SelectOption(v)
PanelRateSteps ==
    \E up \in BOOLEAN :
        /\ up => shapesPerAction.tenths < 10 * MaxPanelRate
        /\ RateStep(up)

NextPanel ==
    \/ Initialize
    \/ StatsClicks
    \/ KeyPresses
    \/ CreateClicks
    \/ DropdownEnters
    \/ AutoClicks
    \/ AutoTimers
    \/ SelectOptions
    \/ PanelRateSteps
    \/ WindowBlur
    \/ PageHidden

SpecPanel == InitDesktop /\ [][NextPanel]_vars

----------------------------------------------------------------------------
(* SpecSteppers: the rate and gravity steppers of the panel, pressed in any *)
(* order once Enter has started the session                                 *)

RateSteps == \E up \in BOOLEAN : RateStep(up)
GravitySteps == \E up \in BOOLEAN : GravityStep(up)

NextSteppers ==
    \/ Initialize
    \/ KeyPresses
    \/ RateSteps
    \/ GravitySteps

SpecSteppers == InitDesktop /\ [][NextSteppers]_vars

----------------------------------------------------------------------------
(* SpecHull: irregular shapes from the factory and shapes handed to         *)
(* addShape with no, too few or enough physics vertices, in both windows    *)

\* What getPhysicsVertices() of the shape handed to addShape returns: null,
\* no vertex, two vertices, three, and the five of the factory at size 75
VertexInputs ==
    { Null, Vertices(<<>>),
      Vertices(<< [x |-> 0, y |-> 0], [x |-> 200000, y |-> 0] >>),
      Vertices(<< [x |-> 0, y |-> 0], [x |-> 200000, y |-> 0],
                  [x |-> 0, y |-> 200000] >>),
      Vertices(scaled(75)) }

HullAdds == \E v \in VertexInputs : AddShape(20, 20, v)
HullCreates ==
    \E t \in { Undefined, Str(Chars_irregular) } :
        \E rnd \in { 0, Len(shapeTypes) - 1 } : CreateShapeWith(20, 20, t, rnd)

NextHull ==
    \/ Initialize
    \/ HullAdds
    \/ HullCreates
    \/ ClearCanvas
    \/ StatsTicks

SpecHull == Init /\ [][NextHull]_vars

----------------------------------------------------------------------------
(* Claims *)

Registry == pixi.shapeBodies
ClickStep == last'.op = "click"

\* The indexes of the registry entries whose outline contains (x, y)
HitsAt(x, y) == { i \in DOMAIN Registry : Hit(Registry[i], x, y) }
TopHit(x, y) == CHOOSE i \in HitsAt(x, y) : \A j \in HitsAt(x, y) : j <= i
Without(entries, m) ==
    [j \in 1..(Len(entries) - 1) |-> IF j < m THEN entries[j] ELSE entries[j + 1]]
IsPrefix(a, b) == Len(a) <= Len(b) /\ \A i \in DOMAIN a : a[i] = b[i]

\* C1: a canvas click removes at most one registry entry, and when shapes
\* contain the click point the entry removed is the one of highest index among
\* them; every other entry, the older overlapping ones included, stays.
C1_ClickRemovesTopmostOnly ==
    [][ClickStep =>
          IF HitsAt(last'.x, last'.y) = {}
          THEN IsPrefix(Registry, pixi'.shapeBodies)
          ELSE pixi'.shapeBodies = Without(Registry, TopHit(last'.x, last'.y))]_vars

\* A click has deleted a shape and an older shape under the same point is left
C1_Witness ==
    /\ last.op = "click" /\ last.wrote
    /\ Len(Registry) = last.before - 1
    /\ HitsAt(last.x, last.y) # {}

\* C2: on an initialised engine the render nodes parented in the shape
\* container are exactly the registry entries' nodes and the non-static bodies
\* of the physics world are exactly the registry entries' bodies, one of each
\* per entry.
C2_RegistryOwnsNodesAndBodies ==
    Initialized =>
        /\ pixi.children = { Registry[i].graphics.id : i \in DOMAIN Registry }
        /\ { b.id : b \in { c \in pixi.bodies : ~c.isStatic } }
              = { Registry[i].body.id : i \in DOMAIN Registry }
        /\ Cardinality(pixi.children) = Len(Registry)
        /\ Cardinality({ c \in pixi.bodies : ~c.isStatic }) = Len(Registry)

\* A click has deleted one of two shapes
C2_Witness ==
    /\ Initialized
    /\ last.op = "click" /\ last.wrote /\ last.before = 2
    /\ Len(Registry) = 1

\* C4: once clearCanvas() has returned the registry is empty, so the stats
\* computed from it are count 0 and area 0.
C4_ClearCanvasEmptiesRegistry ==
    last.op = "clearCanvas" =>
        /\ Registry = <<>>
        /\ updateStatsDisplay(pixi) = [count |-> 0, area |-> 0]

\* clearCanvas() has run on a registry of two shapes
C4_Witness ==
    last.op = "clearCanvas" /\ last.before = 2 /\ Registry = <<>>

\* C5: a canvas click either deletes exactly one shape and is not forwarded to
\* the spawn path, when a shape contains the point, or deletes nothing, is
\* forwarded and spawns, when none does.
C5_ClickDeletesOrSpawns ==
    [][ClickStep =>
          IF HitsAt(last'.x, last'.y) # {}
          THEN /\ ~last'.forwarded
               /\ Len(pixi'.shapeBodies) = Len(Registry) - 1
               /\ \A i \in DOMAIN pixi'.shapeBodies :
                     \E j \in DOMAIN Registry : pixi'.shapeBodies[i] = Registry[j]
          ELSE /\ last'.forwarded
               /\ IsPrefix(Registry, pixi'.shapeBodies)
               /\ Len(pixi'.shapeBodies) > Len(Registry)]_vars

\* A click has deleted a shape without spawning
C5_Witness ==
    /\ last.op = "click" /\ ~last.forwarded /\ last.wrote
    /\ Len(Registry) = last.before - 1

\* C6: a click at (px, py) that hits no shape creates its shapes with spawn
\* position exactly (px, py), and their bodies there.
C6_ClickSpawnsAtPoint ==
    [][ClickStep /\ last'.forwarded =>
          \A i \in (Len(Registry) + 1)..Len(pixi'.shapeBodies) :
              /\ pixi'.shapeBodies[i].shape.x = last'.x
              /\ pixi'.shapeBodies[i].shape.y = last'.y
              /\ pixi'.shapeBodies[i].body.x = last'.x
              /\ pixi'.shapeBodies[i].body.y = last'.y]_vars

\* A click has spawned a shape at its point
C6_Witness ==
    /\ last.op = "click" /\ last.forwarded
    /\ Len(Registry) = last.before + 1
    /\ Registry[Len(Registry)].shape.y = last.y
    /\ Registry[Len(Registry)].shape.x = last.x

\* The static bodies of the physics world and the bodies of the boundary set
StaticIds == { b.id : b \in { c \in pixi.bodies : c.isStatic } }
BoundaryIds == { pixi.boundaries[Sides[i]].id : i \in 1..4 }

\* C8: once initialised, the physics world holds exactly four static bodies:
\* the four recorded in the boundary set.
C8_ExactlyFourBoundaries ==
    pixi.world =>
        /\ StaticIds = BoundaryIds
        /\ Cardinality(BoundaryIds) = 4
        /\ -1 \notin BoundaryIds

\* The boundary set has been rebuilt (initialize() builds it twice) and shapes
\* have come and gone since
C8_Witness ==
    /\ pixi.world
    /\ pixi.boundaries.left.id = 4
    /\ last.op = "click" /\ last.wrote

----------------------------------------------------------------------------
(* Claims on the stats sink, gravity and the viewport *)

\* C3: right after a spawn (spawnAt, createShape, a spawning click), a
\* click-deletion or clearCanvas has returned, the sink shows the registry's
\* length and the rounded sum of the entries' areas.
C3_SinkFreshAfterEveryChange ==
    last.op \in { "click", "spawnAt", "createShape", "clearCanvas" } =>
        sink = updateStatsDisplay(pixi)

\* C7: after setGravity(v), getGravity() is v clamped to [0, 5] (in tenths).
C7_GravityClamped ==
    last.op = "setGravity" => getGravity = Min(50, Max(0, last.x))

\* What createOrUpdateBoundaries would build for the window as it is now
Geometry(b) == [x2 |-> b.x2, y2 |-> b.y2, w |-> b.w, h |-> b.h]
BoundariesFor(w) ==
    LET px == updateRendererSize(pixi, w)
    IN  [i \in 1..4 |-> Geometry(px.boundaries[Sides[i]])]

\* C9: whenever the viewport has changed after initialisation, the four
\* boundary bodies are those computed from the new visible width and height.
C9_BoundariesFollowViewport ==
    Initialized =>
        [i \in 1..4 |-> Geometry(pixi.boundaries[Sides[i]])] = BoundariesFor(win)

\* C10 as stated: any two consecutive writes of the sink, by ticks or by
\* click-deletions, are at least 200 ms apart (two writes for which the clock
\* shows the same time are let pass).
C10_AnyTwoWritesApart ==
    sinkLog.prev # -1 /\ sinkLog.time > sinkLog.prev =>
        sinkLog.time - sinkLog.prev >= 200

\* C10 amended: any two consecutive writes of the sink made by the ticker
\* callback are more than 200 ms apart.
C10_TickWritesApart ==
    sinkLog.prevTick # -1 => sinkLog.tickTime - sinkLog.prevTick > 200

\* The ticker callback has written the sink for the second time, a
\* click-deletion having written it in between
C10_Witness ==
    /\ last.op = "tick" /\ last.wrote
    /\ sinkLog.prevTick # -1
    /\ sinkLog.prev > sinkLog.prevTick

----------------------------------------------------------------------------
(* Claims on the tick's throttle, the session and the engine's life cycle *)

TickStep == last'.op = "tick"

\* What a tick that publishes does, and what a tick that skips does
TickPublishes ==
    /\ last'.wrote
    /\ sink' = updateStatsDisplay(pixi')
    /\ pixi'.lastStatsUpdate = now
TickSkips ==
    /\ ~last'.wrote
    /\ sink' = sink
    /\ pixi'.lastStatsUpdate = pixi.lastStatsUpdate

\* C11 as stated: a tick that runs 200 ms or more after the last tick-driven
\* write of the stats publishes them and records the time; a tick that runs
\* earlier publishes nothing and leaves the recorded time alone.
C11_TickPublishesFrom200 ==
    [][TickStep /\ sinkLog.tickTime # -1 =>
          IF now - sinkLog.tickTime >= 200 THEN TickPublishes ELSE TickSkips]_vars

\* C11 amended: a tick that runs more than 200 ms after the recorded write
\* time (0 before the first write) publishes the stats and records the time;
\* a tick that runs 200 ms after it or earlier publishes nothing and leaves
\* the recorded time alone.
C11_TickPublishesAfter200 ==
    [][TickStep =>
          /\ sinkLog.tickTime # -1 => pixi.lastStatsUpdate = sinkLog.tickTime
          /\ sinkLog.tickTime = -1 => pixi.lastStatsUpdate = 0
          /\ IF now - pixi.lastStatsUpdate > 200
             THEN TickPublishes ELSE TickSkips]_vars

\* A tick has run exactly 200 ms after a tick-driven write and has skipped
C11_Witness ==
    /\ last.op = "tick" /\ ~last.wrote
    /\ sinkLog.tickTime # -1
    /\ now - sinkLog.tickTime = 200
    /\ sink # updateStatsDisplay(pixi)

\* C12: once isRunning() is true it stays true under every operation of the
\* facade, and clearCanvas() on a running session empties the registry and
\* leaves it running.
C12_RunningStaysRunning ==
    [][gsm.isRunning =>
          /\ gsm'.isRunning
          /\ last'.op = "clearCanvas" => pixi'.shapeBodies = <<>>]_vars

\* clearCanvas() has emptied a registry of two shapes while running
C12_Witness ==
    /\ last.op = "clearCanvas" /\ last.before = 2
    /\ gsm.isRunning /\ Registry = <<>>

\* C13: once a canvas click has been handled isRunning() is true, also when
\* the click landed on a shape that existed while the session was not started.
C13_ClickStartsSession ==
    last.op = "click" => gsm.isRunning

\* C14: destroy() does not throw, whatever has happened before, and leaves
\* no listener, no render node, no physics body and no ticker callback.
C14_DestroyTearsDown ==
    last.op = "destroy" =>
        /\ ~last.threw
        /\ pixi.clickListeners = 0 /\ pixi.keydownListeners = 0
        /\ pixi.children = {} /\ pixi.bodies = {}
        /\ ~pixi.animationLoopStarted

\* C15: when initialize() fails for want of the host element the error
\* reaches the caller and nothing of the attempt is left: no Application, no
\* shape container, no physics world, no ticker callback, no listener.
C15_FailedInitializeLeavesNothing ==
    last.op = "initializeFails" =>
        /\ last.threw
        /\ ~pixi.app /\ ~pixi.container /\ ~pixi.world
        /\ ~pixi.animationLoopStarted
        /\ pixi.clickListeners = 0 /\ pixi.keydownListeners = 0

\* The entries that a step has appended to the registry
Appended == SubSeq(pixi'.shapeBodies, Len(Registry) + 1, Len(pixi'.shapeBodies))

\* C17: spawnAt(x, y, type) appends exactly N entries, N being the
\* shapes-per-action setting, which is an integer >= 1 whatever was passed to
\* setShapesPerAction, and the N shapes have the same spawn position.
C17_SpawnAtAddsN ==
    [][last'.op = "spawnAt" =>
          /\ ~shapesPerAction.nan
          /\ shapesPerAction.tenths % 10 = 0 /\ shapesPerAction.tenths >= 10
          /\ IsPrefix(Registry, pixi'.shapeBodies)
          /\ Len(Appended) = shapesPerAction.tenths \div 10
          /\ \A i, j \in DOMAIN Appended :
                /\ Appended[i].shape.x = Appended[j].shape.x
                /\ Appended[i].shape.y = Appended[j].shape.y
                /\ Appended[i].body.x = Appended[j].body.x
                /\ Appended[i].body.y = Appended[j].body.y]_vars

\* C18: createShape(x, y, type) appends exactly one entry to the registry,
\* whatever the shapes-per-action setting is.
C18_CreateShapeAddsOne ==
    [][last'.op = "createShape" =>
          /\ IsPrefix(Registry, pixi'.shapeBodies)
          /\ Len(Appended) = 1]_vars

\* createShape() has added one shape while shapes-per-action was 2
C18_Witness ==
    /\ last.op = "createShape"
    /\ shapesPerAction = Number(20)
    /\ Len(Registry) = last.before + 1

\* C16: also after the listeners have been bound twice, a canvas click runs
\* the click handling once, so that it deletes one shape or spawns one batch,
\* and a key press runs the key handler once.
C16_EventHandledOnce ==
    [][(last'.op = "click" \/ last'.op \in Keys) =>
          /\ last'.runs = 1
          /\ last'.op = "click" =>
                \/ /\ last'.wrote /\ ~last'.forwarded
                   /\ Len(pixi'.shapeBodies) = Len(Registry) - 1
                \/ /\ last'.forwarded /\ ~last'.wrote
                   /\ Len(pixi'.shapeBodies)
                        = Len(Registry) + spawnCount(shapesPerAction)]_vars

----------------------------------------------------------------------------
(* Claims on the shape factory *)

\* The shape of the entry that createShape() has just appended
Newest == pixi'.shapeBodies[Len(pixi'.shapeBodies)].shape

\* C19: ShapeFactory.createShape gives each of the 9 names its own variant,
\* whatever the letter case and the white space around the name and whatever
\* Math.random() returns.
C19_NameDecidesVariant ==
    [][last'.op = "createShape" =>
          \A k \in 1..9 :
              last'.arg \in TypeArgsOf[k] =>
                  /\ Len(Appended) = 1
                  /\ Newest.type = shapeTypes[k]]_vars

\* "HEXAGON" between a line feed and a tab and a blank has given a hexagon
C19_Witness ==
    /\ last.op = "createShape"
    /\ last.arg = Str(<< "\n","H","E","X","A","G","O","N","\t"," " >>)
    /\ Len(Registry) = last.before + 1
    /\ Registry[Len(Registry)].shape.type = "Hexagon"

\* C20: for a type argument that is omitted or null, empty, or names no
\* variant, ShapeFactory.createShape returns a shape (not null, nothing
\* raised) of one of the 9 variants.
C20_UnknownTypeFallsBack ==
    [][last'.op = "createShape" /\ last'.arg \in FallbackTypeArgs =>
          /\ Len(Appended) = 1
          /\ \E k \in 1..9 : Newest.type = shapeTypes[k]]_vars

\* The unknown name "Blob" has given the ninth variant
C20_Witness ==
    /\ last.op = "createShape"
    /\ last.arg = Str(<< "B","l","o","b" >>)
    /\ Len(Registry) = last.before + 1
    /\ Registry[Len(Registry)].shape.type = "Irregular"

\* C21: a shape created with a truthy type argument (any non-empty string,
\* "random" and a blank one included) is spawned at y = -size whatever y was
\* passed; one created with the type omitted, null or empty is spawned at the
\* y passed.  In both cases it is spawned at the x passed.
CreateStep == last'.op = "createShape" /\ Len(pixi'.shapeBodies) = Len(Registry) + 1
C21_TypedSpawnsAbove ==
    [][CreateStep =>
         LET e    == pixi'.shapeBodies[Len(pixi'.shapeBodies)]
             arg  == last'.arg
             some == arg.given /\ arg.chars # <<>>
         IN  /\ e.shape.x = last'.x
             /\ e.body.x = last'.x
             /\ e.shape.y = (IF some THEN -e.shape.size ELSE last'.y)
             /\ e.body.y = e.shape.y]_vars

\* A blank type was passed with y = 300 and the shape was spawned at -size
C21_Witness ==
    /\ last.op = "createShape"
    /\ last.arg = Str(<< " ", " " >>)
    /\ last.y = 300
    /\ Len(Registry) = last.before + 1
    /\ Registry[Len(Registry)].shape.y = -Registry[Len(Registry)].shape.size

\* The top offset the top boundary of the world was built with: its centre is
\* at y = -topOffset - thickness / 2, with a thickness of 50
TopOffsetInForce == (-pixi.boundaries.top.y2 - 50) \div 2

\* C22: whenever a shape is spawned off-screen (a truthy type, so y = -size),
\* the top offset of the top boundary in force is strictly greater than the
\* shape's size, also when the window crossed the 480 px tier after the
\* boundaries were built.
C22_TopBoundaryAboveSpawn ==
    [][(CreateStep /\ last'.arg.given /\ last'.arg.chars # <<>>) =>
         /\ pixi'.boundaries.top # NoBody
         /\ pixi'.boundaries.top = pixi.boundaries.top
         /\ TopOffsetInForce \in {80, 140}
         /\ pixi'.shapeBodies[Len(pixi'.shapeBodies)].shape.size \in {33, 75}
         /\ TopOffsetInForce >
                pixi'.shapeBodies[Len(pixi'.shapeBodies)].shape.size]_vars

\* A shape of size 75 was spawned off-screen in a desktop window while the
\* boundaries were those built for a phone window (top offset 80)
C22_Witness ==
    /\ last.op = "createShape"
    /\ Truthy(last.arg)
    /\ Len(Registry) = last.before + 1
    /\ ~isPhone(win)
    /\ Registry[Len(Registry)].shape.size = 75
    /\ Registry[Len(Registry)].shape.y = -75
    /\ TopOffsetInForce = 80

\* C23: at the end of every tick each registry entry's render node has the
\* x, y and rotation its body has after that tick's physics step, and a stats
\* write made by the tick shows the count and the area of the registry as it
\* is after the step and the copy.
C23_TickStepsSyncsPublishes ==
    [][TickStep =>
         /\ Len(pixi'.shapeBodies) = Len(Registry)
         /\ \A i \in DOMAIN Registry :
              LET e == pixi'.shapeBodies[i]
              IN  /\ e.shape = Registry[i].shape
                  /\ [x |-> e.body.x, y |-> e.body.y, angle |-> e.body.angle]
                        \in PhysicsPoses
                  /\ e.graphics.x = e.body.x
                  /\ e.graphics.y = e.body.y
                  /\ e.graphics.rotation = e.body.angle
         /\ last'.wrote =>
              /\ sink'.count = Len(pixi'.shapeBodies)
              /\ sink'.area = RoundHundredths(totalArea(pixi'.shapeBodies))
              /\ sinkLog'.time = now]_vars

\* A tick that moved a body from (20, 20) to (50, 20) and a quarter turn: the
\* node shows the new pose and the stats written count the shape
C23_Witness ==
    /\ last.op = "tick"
    /\ last.wrote
    /\ Len(Registry) = 2
    /\ \E i \in DOMAIN Registry :
         /\ Registry[i].body.x = 50 /\ Registry[i].body.angle = 2
         /\ Registry[i].graphics.x = 50 /\ Registry[i].graphics.rotation = 2
    /\ sink.count = 2

\* C24: every tick callback calls Matter.Engine.update exactly once, with
\* the fixed step of 1000/60 ms (1000 sixtieths of a millisecond), however
\* long ago the previous callback ran;
\* no other handler steps the engine, so the number of physics steps is the
\* number of tick callbacks.
C24_OneFixedStepPerTick ==
    [][IF TickStep
       THEN last'.steps = 1 /\ last'.delta = 1000
       ELSE last'.steps = 0]_vars

\* The first tick that wrote the stats ran at 400 ms or later: every tick
\* before it ran within the first 200 ms, so it came 200 ms or more (12 frames)
\* after the previous callback, and it made one step of 1000/60 ms
C24_Witness ==
    /\ last.op = "tick"
    /\ last.steps = 1
    /\ last.delta = FixedStep
    /\ now >= 400
    /\ sinkLog.tickTime = now
    /\ sinkLog.prevTick = -1
    /\ Len(Registry) > 0

\* The closed forms evaluated in floating point for s = 33 and s = 75 and
\* rounded to hundredths of a square pixel: pi (s/2)^2, s^2, s (s/2),
\* (sqrt 3 / 4) s^2, 0.7 pi (s/2)^2, (1/4) sqrt(5 (5 + 2 sqrt 5)) s^2,
\* (3 sqrt 3 / 2) s^2, pi (s/2) (0.6 s/2), and the shoelace area of the five
\* base vertices scaled by 1.15 (s/2)
ClosedFormArea ==
    [Circle    |-> << 85530,  441786 >>,
     Square    |-> << 108900, 562500 >>,
     Rectangle |-> << 54450,  281250 >>,
     Triangle  |-> << 47155,  243570 >>,
     Star      |-> << 59871,  309251 >>,
     Pentagon  |-> << 187360, 967769 >>,
     Hexagon   |-> << 282930, 1461418 >>,
     Ellipse   |-> << 51318,  265072 >>,
     Irregular |-> << 78761,  406824 >>]
TableArea(shape) == ClosedFormArea[shape.type][IF shape.size = 33 THEN 1 ELSE 2]
RECURSIVE TableTotal(_)
TableTotal(entries) ==
    IF entries = <<>> THEN 0
    ELSE TableArea(Head(entries).shape) + TableTotal(Tail(entries))
\* a and b differ by no more than a ten-thousandth of b
Close(a, b) == Abs(a - b) <= b \div 10000

\* C25: getArea() of every shape in the registry is the closed form of its
\* variant at its size (to a ten-thousandth), and the stats a tick writes are
\* the number of shapes and the sum of the closed forms rounded to a pixel; a
\* Circle plus a Rectangle of size 75 give count 2 and about 7230.4 px2.
C25_AreaIsClosedForm ==
    [][/\ \A i \in DOMAIN pixi'.shapeBodies :
            LET sh == pixi'.shapeBodies[i].shape
            IN  /\ sh.size \in {33, 75}
                /\ Close(getArea(sh), TableArea(sh))
       /\ (TickStep /\ last'.wrote) =>
            /\ sink'.count = Len(pixi'.shapeBodies)
            /\ Abs(sink'.area * 100 - TableTotal(pixi'.shapeBodies))
                 <= 50 + (TableTotal(pixi'.shapeBodies) \div 10000)
            /\ ( /\ Len(pixi'.shapeBodies) = 2
                 /\ { pixi'.shapeBodies[i].shape.type : i \in 1..2 }
                       = {"Circle", "Rectangle"}
                 /\ win = Desktop )
                 => (sink'.count = 2 /\ sink'.area = 7230)]_vars

\* The stats written by a tick for a Circle and a Rectangle of size 75
C25_Witness ==
    /\ last.op = "tick"
    /\ last.wrote
    /\ Len(Registry) = 2
    /\ { Registry[i].shape.type : i \in DOMAIN Registry } = {"Circle", "Rectangle"}
    /\ \A i \in DOMAIN Registry : Registry[i].shape.size = 75
    /\ sink = [count |-> 2, area |-> 7230]

\* C26: a click on a shape writes the stats in the click handler itself: in
\* the state the click leaves, the sink shows one shape less than the registry
\* held and the rounded total of the areas less the deleted shape's area, the
\* other entries being as they were; when the sink was up to date before the
\* click, the count shown drops by exactly 1.
C26_ClickDeletionPublishes ==
    [][(ClickStep /\ HitsAt(last'.x, last'.y) # {}) =>
         LET k    == TopHit(last'.x, last'.y)
             gone == getArea(Registry[k].shape)
         IN  /\ pixi'.shapeBodies = Without(Registry, k)
             /\ sink'.count = Len(Registry) - 1
             /\ sink'.area = RoundHundredths(totalArea(Registry) - gone)
             /\ gone > 0
             /\ sinkLog'.time = now /\ now' = now
             /\ (sink = updateStatsDisplay(pixi)) => (sink'.count = sink.count - 1)]_vars

\* With a Rectangle and a Circle live and a tick-driven write behind, a click
\* has deleted the circle: the sink shows count 1 and the rectangle's
\* 2812.5 px2, rounded, and no tick has run since
C26_Witness ==
    /\ last.op = "click" /\ last.before = 2
    /\ Len(Registry) = 1
    /\ Registry[1].shape.type = "Rectangle"
    /\ sink = [count |-> 1, area |-> 2813]
    /\ sinkLog.time = now
    /\ sinkLog.tickTime < now
    /\ sinkLog.prev = sinkLog.tickTime /\ sinkLog.prev # -1

\* C27: in every state the shape count kept by the GameStateManager
\* (getShapeCount) is the length of the registry.
C27_ShapeCountIsRegistryLength ==
    gsm.shapeCount = Len(Registry)

\* The entries of the registry that contain (x, y), in a given state's registry
HitsIn(entries, x, y) == { i \in DOMAIN entries : Hit(entries[i], x, y) }

\* C28: the registry keeps insertion order.  A spawn (click, spawnAt,
\* createShape) only appends at the end; a click-deletion takes out one entry
\* that contains the point and leaves every other entry as it was and in the
\* same relative order, so that the next click at any point still finds the
\* newest of the remaining entries that contain it.
C28_RegistryKeepsInsertionOrder ==
    [][last'.op \in { "click", "spawnAt", "createShape" } =>
         /\ \/ IsPrefix(Registry, pixi'.shapeBodies)
            \/ \E k \in HitsIn(Registry, last'.x, last'.y) :
                 /\ pixi'.shapeBodies = Without(Registry, k)
                 /\ \A i, j \in DOMAIN Registry \ {k} :
                      i < j =>
                        \E m, n \in DOMAIN pixi'.shapeBodies :
                          /\ m < n
                          /\ pixi'.shapeBodies[m] = Registry[i]
                          /\ pixi'.shapeBodies[n] = Registry[j]
         /\ \A p \in Points :
              LET hits == HitsIn(pixi'.shapeBodies, p[1], p[2])
              IN  IF hits = {} THEN hitIndex(pixi', p[1], p[2]) = 0
                  ELSE /\ hitIndex(pixi', p[1], p[2]) \in hits
                       /\ \A h \in hits : h <= hitIndex(pixi', p[1], p[2])]_vars

\* A click on the full stack has deleted its second shape: the first and the
\* third (node ids two apart) stay, in that order
C28_Witness ==
    /\ last.op = "click" /\ last.wrote
    /\ last.before = MaxShapes + 1
    /\ Len(Registry) = MaxShapes
    /\ Registry[2].graphics.id = Registry[1].graphics.id + 2

\* The sink shows the registry's length and the rounded sum of its areas
Fresh ==
    /\ sink.count = Len(Registry)
    /\ sink.area = RoundHundredths(totalArea(Registry))

\* C29: the stats shown lag the registry only for a while.  While ticks keep
\* running, a sink that differs from the registry's stats is followed by one
\* that shows them (as long as the explored clock has 300 ms left to run),
\* because a tick that runs more than 200 ms after the last tick-driven write
\* publishes the length and the rounded summed area of the registry it leaves.
C29_StaleStatsGetPublished ==
    /\ [][(TickStep /\ now - pixi.lastStatsUpdate > 200) =>
            /\ sink'.count = Len(pixi'.shapeBodies)
            /\ sink'.area = RoundHundredths(totalArea(pixi'.shapeBodies))]_vars
    /\ (Initialized /\ ~Fresh /\ now + 300 <= MaxClockSteps * 100) ~> Fresh

\* A click has spawned a shape right after a tick wrote the stats: the sink
\* still shows the old count, no tick will write for the next 200 ms, and the
\* clock has 300 ms or more left
C29_Witness ==
    /\ last.op = "click" /\ last.forwarded
    /\ ~Fresh
    /\ sink.count = Len(Registry) - 1
    /\ sinkLog.tickTime = now
    /\ pixi.lastStatsUpdate = now
    /\ now + 300 <= MaxClockSteps * 100

\* C30: once Escape has been handled the registry is empty, whether the
\* session was running or not started; Enter starts the session when it is
\* not started and changes nothing when it is running.
C30_EscapeClearsEnterStarts ==
    [][/\ last'.op = "Escape" => pixi'.shapeBodies = <<>>
       /\ last'.op = "Enter" =>
            IF gsm.isRunning THEN pixi' = pixi /\ gsm' = gsm
            ELSE gsm'.isRunning /\ pixi'.shapeBodies = Registry]_vars

\* The render node of entry e carries the position and the angle of its body
InSync(e) ==
    /\ e.graphics.x = e.body.x
    /\ e.graphics.y = e.body.y
    /\ e.graphics.rotation = e.body.angle

\* C31: whenever a canvas click is handled, every registry entry's render
\* node has the position and rotation of its body, also an entry added since
\* the last tick, so a click at the spawn point of the newest entry finds it.
C31_ClickSeesSyncedNodes ==
    [][ClickStep =>
          /\ \A i \in DOMAIN Registry : InSync(Registry[i])
          /\ (/\ Registry # <<>>
              /\ last.op \in { "click", "spawnAt", "createShape" }
              /\ Len(Registry) > last.before
              /\ last'.x = Registry[Len(Registry)].shape.x
              /\ last'.y = Registry[Len(Registry)].body.y)
                => last'.wrote]_vars

\* C32: under the events of the user interface no shape exists before the
\* session has started: while isRunning() is false the registry is empty, and
\* the Create and Auto buttons stay disabled until then.
C32_NoShapeBeforeStart ==
    (ui.wired /\ ~gsm.isRunning) =>
        /\ Registry = <<>>
        /\ ui.createDisabled /\ ui.autoDisabled

\* The window lost the focus before the session was started, and the panel
\* is still disabled
C32_Witness ==
    /\ last.op = "blur"
    /\ ui.wired /\ ~gsm.isRunning
    /\ ui.createDisabled /\ ui.autoDisabled

\* C33: at most one auto-spawn interval is active at any time, and it is the
\* one recorded in autoIntervalId; an Auto click while one is recorded, a blur
\* and a hidden page leave none; an Auto click while none is recorded leaves
\* exactly one; the interval spawns only while one is recorded.
C33_AtMostOneInterval ==
    /\ [](/\ Cardinality(ui.intervals) <= 1
          /\ ui.intervals = IF isAutoRunning(ui) THEN { ui.autoIntervalId }
                            ELSE {})
    /\ [][/\ last'.op \in { "stopAuto", "blur", "hidden" } =>
                ui'.intervals = {} /\ ~isAutoRunning(ui')
          /\ last'.op = "stopAuto" => isAutoRunning(ui)
          /\ last'.op = "startAuto" =>
                ~isAutoRunning(ui) /\ Cardinality(ui'.intervals) = 1
          /\ last'.op = "autoSpawn" =>
                isAutoRunning(ui) /\ Len(pixi'.shapeBodies) = Len(Registry) + 1
         ]_vars

\* The interval has spawned a shape, and it is the only interval
C33_Witness ==
    /\ last.op = "autoSpawn"
    /\ isAutoRunning(ui)
    /\ ui.intervals = { ui.autoIntervalId }
    /\ Len(Registry) = 2

\* C34: while auto-spawn is running every auto-spawned shape is requested
\* with the type that was selected when Auto was started: the selection is
\* locked and cannot change, the Create button and the dropdown are
\* disabled, and shapes-per-action stays 1 for the whole run.
C34_AutoRunKeepsSelection ==
    /\ [](isAutoRunning(ui) =>
            /\ ui.autoLockedShape = ui.selection
            /\ ui.createDisabled /\ ui.selectDisabled /\ ui.optionsInert
            /\ shapesPerAction = Number(10))
    /\ [][/\ last'.op = "startAuto" =>
                /\ last'.arg = ui.selection
                /\ ui'.autoLockedShape = ui.selection
          /\ last'.op = "autoSpawn" =>
                /\ last'.arg = ui.autoLockedShape
                /\ ui' = ui
                /\ Len(pixi'.shapeBodies) = Len(Registry) + 1
          /\ (isAutoRunning(ui) /\ isAutoRunning(ui')) =>
                /\ ui'.autoLockedShape = ui.autoLockedShape
                /\ ui'.selection = ui.selection
         ]_vars

\* The interval has spawned a circle for a run that was started with the
\* circle selected
C34_Witness ==
    /\ last.op = "autoSpawn"
    /\ last.arg = Str(Chars_circle)
    /\ ui.autoLockedShape = Str(Chars_circle)
    /\ Len(Registry) = 2
    /\ Registry[2].shape.type = "Circle"

\* C35: through any sequence of presses of the gravity and rate steppers the
\* gravity stays within [0, 5] on the 0.2 grid and shapes-per-action stays an
\* integer within [1, 20]; minus at the lower bound and plus at the upper
\* bound leave the value unchanged, every other press moves it by one step.
C35_SteppersStayInRange ==
    /\ [](/\ getGravity \in 0..50 /\ getGravity % 2 = 0
          /\ ~shapesPerAction.nan
          /\ shapesPerAction.tenths % 10 = 0
          /\ shapesPerAction.tenths \in 10..200)
    /\ [][/\ last'.op = "gravityMinus" =>
                pixi'.gravityY = IF getGravity = 0 THEN 0 ELSE getGravity - 2
          /\ last'.op = "gravityPlus" =>
                pixi'.gravityY = IF getGravity = 50 THEN 50 ELSE getGravity + 2
          /\ last'.op = "rateMinus" =>
                shapesPerAction'.tenths =
                    IF shapesPerAction.tenths = 10 THEN 10
                    ELSE shapesPerAction.tenths - 10
          /\ last'.op = "ratePlus" =>
                shapesPerAction'.tenths =
                    IF shapesPerAction.tenths = 200 THEN 200
                    ELSE shapesPerAction.tenths + 10
         ]_vars

\* Plus has been pressed on the rate at 20 while the gravity was at 0
C35_Witness ==
    /\ last.op = "ratePlus" /\ last.x = 200
    /\ shapesPerAction = Number(200)
    /\ getGravity = 0

\* C36: for triangle, pentagon, hexagon and star the drawn outline and the
\* hull are oriented alike: once the render node carries the body's angle the
\* outer vertices of the outline point where the hull's vertices point, and
\* at spawn the hull has a flat edge at the bottom.
C36_OutlineMatchesHullFlatDown ==
    [][\A i \in DOMAIN pixi'.shapeBodies :
          LET e == pixi'.shapeBodies[i]
          IN  e.shape.type \in PolygonTypes =>
                /\ OutlineAngles(Synced(e)) = HullAngles(e)
                /\ (CreateStep /\ i = Len(pixi'.shapeBodies)) =>
                      FlatEdgeAtBottom(HullAngles(e), hullSides(e.shape.type))
      ]_vars

\* C37: addShape registers an irregular shape that supplies fewer than 3
\* physics vertices, or none, with the default triangle built from its size
\* as hull and raises no error; one that supplies 3 or more gets them as its
\* hull; every Irregular built by the factory supplies its 5 vertices, so
\* the factory's shapes never get the default hull.
C37_DegenerateHullFallsBack ==
    [][(last'.op \in { "addShape", "createShape" }
          /\ pixi'.shapeBodies # <<>>
          /\ pixi'.shapeBodies[Len(pixi'.shapeBodies)].shape.type = "Irregular")
        =>
        LET e == pixi'.shapeBodies[Len(pixi'.shapeBodies)]
            v == e.shape.vertices
            s == e.shape.size
        IN  /\ Len(pixi'.shapeBodies) = Len(Registry) + 1
            /\ ~last'.threw
            /\ e.body.id \in { b.id : b \in pixi'.bodies }
            /\ e.graphics.id \in pixi'.children
            /\ (v.isNull \/ Len(v.pts) < 3) =>
                  e.body.hull = << [x |-> -s * 10000, y |-> -s * 10000],
                                   [x |-> s * 10000,  y |-> -s * 10000],
                                   [x |-> 0,          y |-> s * 10000] >>
            /\ (~v.isNull /\ Len(v.pts) >= 3) => e.body.hull = v.pts
            /\ last'.op = "createShape" =>
                  /\ ~v.isNull /\ Len(v.pts) = 5
                  /\ e.body.hull = v.pts
                  /\ \A i \in 1..5 :
                        /\ v.pts[i].x = BASE_VERTICES[i].x * s * 115
                        /\ v.pts[i].y = BASE_VERTICES[i].y * s * 115
      ]_vars

\* A shape that supplies two vertices has been registered on the phone,
\* with the default triangle of size 33 as hull
C37_Witness ==
    /\ last.op = "addShape"
    /\ Len(Registry) = 2
    /\ Len(Registry[2].shape.vertices.pts) = 2
    /\ Registry[2].shape.size = 33
    /\ Len(Registry[2].body.hull) = 3
    /\ Registry[2].body.hull[3] = [x |-> 0, y |-> 330000]

====
